---- MODULE Spec2Model ----
(***************************************************************************)
(* Schedules module (ERPlora/module-schedules): weekly business hours,     *)
(* special days, schedule overrides, per-hub settings, the slot generator  *)
(* BusinessHours.get_slots and the open/closed resolution of the views     *)
(* is_open_now and dashboard.                                              *)
(*                                                                         *)
(* Clock times are datetime.time values, modelled as the number of seconds *)
(* since midnight (0 .. 86399); a NULL time column is None.  Dates are     *)
(* records [year, month, day].  Tables are sets of rows.                   *)
(***************************************************************************)
EXTENDS Integers, Sequences, FiniteSets, TLC

VARIABLES
    hours,      \* table schedules_business_hours (BusinessHours rows)
    specials,   \* table schedules_special_day   (SpecialDay rows)
    overrides,  \* table schedules_override      (ScheduleOverride rows)
    settings,   \* table schedules_settings      (ScheduleSettings rows)
    today,      \* timezone.localdate() of the request being served
    now_time,   \* timezone.localtime().time() of the request being served
    frame,      \* the BusinessHours method call in progress / last returned
    resp,       \* the last view response (JSON body or template context)
    reqs        \* the requests being served: worker |-> its position in a view

vars == <<hours, specials, overrides, settings, today, now_time, frame, resp,
          reqs>>

\* A NULL column (models.py: null=True) / Python None.
None == -1

----------------------------------------------------------------------------
(* datetime.time and datetime.date                                         *)

\* datetime.time(hour, minute, second) as seconds since midnight.
T(h, m, s) == (h * 60 + m) * 60 + s

\* time.hour and time.minute (models.py:185-186).
Hour(t) == t \div 3600
Minute(t) == (t \div 60) % 60

\* datetime.date(year, month, day).
D(y, m, d) == [year |-> y, month |-> m, day |-> d]

IsLeap(y) == (y % 4 = 0) /\ ((y % 100 # 0) \/ (y % 400 = 0))

DaysBeforeMonth(y, m) ==
    LET cum == <<0, 31, 59, 90, 120, 151, 181, 212, 243, 273, 304, 334>>
    IN  cum[m] + (IF m > 2 /\ IsLeap(y) THEN 1 ELSE 0)

\* date.toordinal(): proleptic Gregorian ordinal, 0001-01-01 is day 1.
ToOrdinal(dt) ==
    LET y1 == dt.year - 1
    IN  y1 * 365 + (y1 \div 4) - (y1 \div 100) + (y1 \div 400)
        + DaysBeforeMonth(dt.year, dt.month) + dt.day

\* date.weekday(): 0 = Monday .. 6 = Sunday.
Weekday(dt) == (ToOrdinal(dt) + 6) % 7

\* Date comparisons of the ORM filters (start_date__lte, end_date__gte, date__gte).
DateLE(a, b) == ToOrdinal(a) <= ToOrdinal(b)

----------------------------------------------------------------------------
(* ScheduleSettings                                                        *)

\* Field defaults of ScheduleSettings.
DefaultTimezone == "Europe/Madrid"
DefaultWeekStartsOn == 1
DefaultSlotDuration == 30

\* The duration get_slots falls back to when the settings lookup raises.
FallbackSlotDuration == 30

\* The primary key of the next row inserted in a table (rows are never
\* removed from a table: deletion is soft).
NextId(tbl) == Cardinality(tbl) + 1

\* ScheduleSettings(hub_id=hub) before it is saved: no primary key yet.
NewSettings(hub) ==
    [id |-> None, hub_id |-> hub, timezone |-> DefaultTimezone,
     week_starts_on |-> DefaultWeekStartsOn,
     slot_duration |-> DefaultSlotDuration,
     auto_close_enabled |-> FALSE, is_deleted |-> FALSE]

\* get_settings as update_or_create: a row found is reset to the defaults.
get_settings_ResetsRow(tbl, hub) ==
    IF \E s \in tbl : s.hub_id = hub
    THEN LET found == CHOOSE s \in tbl : s.hub_id = hub
             reset == [NewSettings(hub) EXCEPT !.id = found.id]
         IN  [table |-> (tbl \ {found}) \cup {reset}, row |-> reset]
    ELSE LET created == [NewSettings(hub) EXCEPT !.id = NextId(tbl)]
         IN  [table |-> tbl \cup {created}, row |-> created]

\* get_settings inserting a row on every call.
get_settings_AlwaysCreate(tbl, hub) ==
    LET created == [NewSettings(hub) EXCEPT !.id = NextId(tbl)]
    IN  [table |-> tbl \cup {created}, row |-> created]

\* ScheduleSettings.get_settings: all_objects.get_or_create(hub_id=hub).
\* Returns the table after the call and the row found or created.
get_settings(tbl, hub) ==
    IF \E s \in tbl : s.hub_id = hub
    THEN [table |-> tbl, row |-> CHOOSE s \in tbl : s.hub_id = hub]
    ELSE LET created == [NewSettings(hub) EXCEPT !.id = NextId(tbl)]
         IN  [table |-> tbl \cup {created}, row |-> created]

----------------------------------------------------------------------------
(* BusinessHours                                                           *)

\* The break test shared by is_open_at and get_slots:
\* "if self.break_start and self.break_end: if break_start <= t < break_end".
InBreak(self, t) ==
    /\ self.break_start # None
    /\ self.break_end # None
    /\ self.break_start <= t
    /\ t < self.break_end

\* clean() testing open_time > close_time, so that equal times pass.
BusinessHoursClean_EqualTimesPass(self) ==
    IF self.is_closed THEN ""
    ELSE IF self.open_time # None /\ self.close_time # None
            /\ self.open_time > self.close_time
    THEN "Open time must be before close time."
    ELSE IF self.break_start # None /\ self.break_end # None
    THEN IF self.break_start >= self.break_end
         THEN "Break start must be before break end."
         ELSE IF self.open_time # None /\ self.break_start < self.open_time
         THEN "Break start must be after open time."
         ELSE IF self.close_time # None /\ self.break_end > self.close_time
         THEN "Break end must be before close time."
         ELSE ""
    ELSE ""

\* BusinessHours.clean(): the message of the ValidationError it raises, or ""
\* when it returns.  (A datetime.time is truthy, so "if self.open_time" tests
\* for None.)
BusinessHoursClean(self) ==
    IF self.is_closed THEN ""
    ELSE IF self.open_time # None /\ self.close_time # None
            /\ self.open_time >= self.close_time
    THEN "Open time must be before close time."
    ELSE IF self.break_start # None /\ self.break_end # None
    THEN IF self.break_start >= self.break_end
         THEN "Break start must be before break end."
         ELSE IF self.open_time # None /\ self.break_start < self.open_time
         THEN "Break start must be after open time."
         ELSE IF self.close_time # None /\ self.break_end > self.close_time
         THEN "Break end must be before close time."
         ELSE ""
    ELSE ""

\* is_open_at with the close boundary taken inclusive.
is_open_at_CloseInclusive(self, check_time) ==
    IF self.is_closed THEN FALSE
    ELSE IF ~(self.open_time <= check_time /\ check_time <= self.close_time)
         THEN FALSE
    ELSE IF InBreak(self, check_time) THEN FALSE
    ELSE TRUE

\* is_open_at without the is_closed test.
is_open_at_IgnoringClosed(self, check_time) ==
    IF ~(self.open_time <= check_time /\ check_time < self.close_time)
         THEN FALSE
    ELSE IF InBreak(self, check_time) THEN FALSE
    ELSE TRUE

\* BusinessHours.is_open_at(check_time).
is_open_at(self, check_time) ==
    IF self.is_closed THEN FALSE
    ELSE IF ~(self.open_time <= check_time /\ check_time < self.close_time)
         THEN FALSE
    ELSE IF InBreak(self, check_time) THEN FALSE
    ELSE TRUE

\* The frame of a BusinessHours method call.  pc: "idle" (no call yet),
\* "loop" (get_slots at the head of its while loop), "returned", "raised"
\* (an exception left the method), "diverged" (the while loop came back to
\* a position it already was at: the loop's control depends on the position
\* alone, so from there it runs forever).
IdleFrame ==
    [op |-> "none", pc |-> "idle", self |-> None, check_time |-> None,
     result |-> FALSE, duration |-> 0, current |-> None, slots |-> <<>>,
     visited |-> {}, error |-> ""]

\* The while loop of get_slots without its break test: every position before
\* close_time becomes a slot.
GetSlotsStep_IgnoresBreak(f, self) ==
    LET current == f.current
        seen == f.visited \cup {current}
    IN  IF ~(current < self.close_time)
        THEN [f EXCEPT !.pc = "returned"]
        ELSE LET slots == Append(f.slots, current)
                 total_minutes == Hour(current) * 60 + Minute(current) + f.duration
                 new_hour == total_minutes \div 60
                 new_minute == total_minutes % 60
             IN  IF new_hour >= 24
                 THEN [f EXCEPT !.pc = "returned", !.slots = slots]
                 ELSE IF new_hour < 0
                 THEN [f EXCEPT !.pc = "raised", !.slots = slots]
                 ELSE IF T(new_hour, new_minute, 0) \in seen
                 THEN [f EXCEPT !.pc = "diverged", !.slots = slots, !.visited = seen]
                 ELSE [f EXCEPT !.current = T(new_hour, new_minute, 0),
                                !.slots = slots, !.visited = seen]

\* One evaluation of the while loop of get_slots, from its head.
GetSlotsStep(f, self) ==
    LET current == f.current
        seen == f.visited \cup {current}
        Goto(c, sl) ==
            IF c \in seen
            THEN [f EXCEPT !.pc = "diverged", !.slots = sl, !.visited = seen]
            ELSE [f EXCEPT !.current = c, !.slots = sl, !.visited = seen]
    IN  IF ~(current < self.close_time)
        THEN [f EXCEPT !.pc = "returned"]
        ELSE IF InBreak(self, current)
        THEN Goto(self.break_end, f.slots)
        ELSE LET slots == Append(f.slots, current)
                 total_minutes == Hour(current) * 60 + Minute(current) + f.duration
                 new_hour == total_minutes \div 60
                 new_minute == total_minutes % 60
             IN  IF new_hour >= 24
                 THEN [f EXCEPT !.pc = "returned", !.slots = slots]
                 ELSE IF new_hour < 0
                 THEN [f EXCEPT !.pc = "raised", !.slots = slots]
                 ELSE Goto(T(new_hour, new_minute, 0), slots)

----------------------------------------------------------------------------
(* Inputs of the BusinessHours specification                               *)

HubA == "hubA"
HubB == "hubB"

\* Strides a settings row may hold: slot_duration is an unvalidated
\* IntegerField, so zero and negative values are storable.
DurationStep == 20
MaxDurationMult == 3
Durations == {DurationStep * k : k \in -1 .. MaxDurationMult}

OpenTimes == {T(9, 0, 0), T(9, 0, 30), T(12, 0, 0), T(13, 0, 0), T(22, 0, 0)}
CloseTimes == {T(9, 30, 15), T(12, 0, 0), T(18, 0, 0), T(23, 59, 59)}
BreakStarts == {None, T(9, 0, 0), T(13, 0, 0), T(13, 5, 0)}
BreakEnds == {None, T(13, 10, 0), T(14, 0, 0), T(14, 0, 30), T(18, 0, 0)}
CheckTimes ==
    {T(8, 0, 0), T(9, 0, 0), T(9, 0, 30), T(13, 0, 0), T(13, 59, 0),
     T(14, 0, 0), T(17, 59, 59), T(18, 0, 0), T(19, 0, 0)}

\* A BusinessHours row.  edit_hours saves rows without calling clean(), so
\* a stored row need not satisfy open < close or break-within-hours.
HoursRow(i, hub, day, closed, o, c, bs, be, del) ==
    [id |-> i, hub_id |-> hub, day_of_week |-> day, is_closed |-> closed,
     open_time |-> o, close_time |-> c, break_start |-> bs, break_end |-> be,
     is_deleted |-> del]

HoursRowsUnderTest ==
    {HoursRow(1, HubA, 0, closed, o, c, bs, be, FALSE) :
        closed \in BOOLEAN, o \in OpenTimes, c \in CloseTimes,
        bs \in BreakStarts, be \in BreakEnds}

SettingsTablesUnderTest ==
    {{}} \cup {{[NewSettings(HubA) EXCEPT !.id = 1, !.slot_duration = d]} :
                    d \in Durations}

NoResp == [view |-> "none"]

\* The workers serving requests, and the state with no request in progress.
MaxInFlight == 2
Workers == 1 .. MaxInFlight
IdleRequest == [pc |-> "idle"]
NoRequests == [w \in Workers |-> IdleRequest]

\* h.is_open_at(t) on a loaded row.
IsOpenAtCall ==
    /\ frame.pc # "loop"
    /\ \E self \in hours, t \in CheckTimes :
          frame' = [IdleFrame EXCEPT !.op = "is_open_at", !.pc = "returned",
                                     !.self = self.id, !.check_time = t,
                                     !.result = is_open_at(self, t)]
    /\ UNCHANGED <<hours, specials, overrides, settings, today, now_time, resp, reqs>>

\* h.clean() on a loaded row.
CleanCall ==
    /\ frame.pc # "loop"
    /\ \E self \in hours :
          LET error == BusinessHoursClean(self)
          IN  frame' = [IdleFrame EXCEPT !.op = "clean",
                                         !.pc = IF error = "" THEN "returned"
                                                ELSE "raised",
                                         !.self = self.id, !.error = error]
    /\ UNCHANGED <<hours, specials, overrides, settings, today, now_time, resp, reqs>>

\* h.get_slots() up to the head of the while loop.
GetSlotsCall ==
    /\ frame.pc # "loop"
    /\ \E self \in hours :
          IF self.is_closed
          THEN /\ frame' = [IdleFrame EXCEPT !.op = "get_slots", !.pc = "returned",
                                             !.self = self.id]
               /\ UNCHANGED settings
          ELSE \E db_error \in BOOLEAN :
                 LET got == get_settings(settings, self.hub_id)
                     duration == IF db_error THEN FallbackSlotDuration
                                 ELSE got.row.slot_duration
                 IN  /\ settings' = IF db_error THEN settings ELSE got.table
                     /\ frame' = [IdleFrame EXCEPT !.op = "get_slots", !.pc = "loop",
                                                   !.self = self.id,
                                                   !.duration = duration,
                                                   !.current = self.open_time]
    /\ UNCHANGED <<hours, specials, overrides, today, now_time, resp, reqs>>

\* One iteration of the while loop of get_slots.
GetSlotsLoop ==
    /\ frame.op = "get_slots"
    /\ frame.pc = "loop"
    /\ \E self \in hours :
          /\ self.id = frame.self
          /\ frame' = GetSlotsStep(frame, self)
    /\ UNCHANGED <<hours, specials, overrides, settings, today, now_time, resp, reqs>>

----------------------------------------------------------------------------
(* ORM lookups of the views                                                *)

\* The result of QuerySet.first() on an empty queryset, and of a failed get().
NoRow == [id |-> None]

\* The filter without is_deleted=False.
LiveOf_IncludingDeleted(tbl, hub) == {r \in tbl : r.hub_id = hub}

\* The filter without hub_id=hub.
LiveOf_AnyHub(tbl, hub) == {r \in tbl : ~r.is_deleted}

\* Model.objects.filter(hub_id=hub, is_deleted=False).
LiveOf(tbl, hub) == {r \in tbl : r.hub_id = hub /\ ~r.is_deleted}

\* The override lookup preferring, among the covering overrides, one that is
\* marked closed.
OverrideToday_ClosedFirst(hub, tdy) ==
    LET qs == {o \in LiveOf(overrides, hub) :
                  DateLE(o.start_date, tdy) /\ DateLE(tdy, o.end_date)}
        closed == {o \in qs : o.is_closed}
    IN  IF qs = {} THEN {NoRow}
        ELSE IF closed # {} THEN closed
        ELSE {o \in qs : \A p \in qs : DateLE(p.start_date, o.start_date)}

\* ScheduleOverride ... filter(start_date__lte=today, end_date__gte=today).first()
\* under Meta.ordering = ['-start_date']: the rows first() may return (rows
\* with equal start_date come in an order the database chooses).
OverrideToday(hub, tdy) ==
    LET qs == {o \in LiveOf(overrides, hub) :
                  DateLE(o.start_date, tdy) /\ DateLE(tdy, o.end_date)}
    IN  IF qs = {} THEN {NoRow}
        ELSE {o \in qs : \A p \in qs : DateLE(p.start_date, o.start_date)}

\* SpecialDay ... filter(date=today).first() under Meta.ordering = ['date'].
SpecialToday(hub, tdy) ==
    LET qs == {sd \in LiveOf(specials, hub) : sd.date = tdy}
    IN  IF qs = {} THEN {NoRow}
        ELSE {sd \in qs : \A p \in qs : DateLE(sd.date, p.date)}

\* The recurring lookup without its recurring_yearly=True filter.
RecurringToday_AnySpecial(hub, tdy) ==
    LET qs == {sd \in LiveOf(specials, hub) :
                  /\ sd.date.month = tdy.month
                  /\ sd.date.day = tdy.day}
    IN  IF qs = {} THEN {NoRow}
        ELSE {sd \in qs : \A p \in qs : DateLE(sd.date, p.date)}

\* SpecialDay ... filter(recurring_yearly=True, date__month=, date__day=).first().
RecurringToday(hub, tdy) ==
    LET qs == {sd \in LiveOf(specials, hub) :
                  /\ sd.recurring_yearly
                  /\ sd.date.month = tdy.month
                  /\ sd.date.day = tdy.day}
    IN  IF qs = {} THEN {NoRow}
        ELSE {sd \in qs : \A p \in qs : DateLE(sd.date, p.date)}

\* BusinessHours.objects.get(hub_id=, is_deleted=False, day_of_week=): the row,
\* or NoRow for DoesNotExist (unique_together allows one row per hub and day).
HoursToday(hub, wd) ==
    LET qs == {h \in LiveOf(hours, hub) : h.day_of_week = wd}
    IN  IF qs = {} THEN {NoRow} ELSE qs

\* SpecialDay ... filter(date__gte=today).order_by('date').first().
NextSpecial(hub, tdy) ==
    LET qs == {sd \in LiveOf(specials, hub) : DateLE(tdy, sd.date)}
    IN  IF qs = {} THEN {NoRow}
        ELSE {sd \in qs : \A p \in qs : DateLE(sd.date, p.date)}

----------------------------------------------------------------------------
(* is_open_now and dashboard                                               *)

\* "if r.is_closed: ... elif r.open_time and r.close_time: ..." returns.
Returns(r) ==
    r # NoRow /\ (r.is_closed \/ (r.open_time # None /\ r.close_time # None))

\* The interval test of the branches with the close boundary taken inclusive.
BranchIsOpen_CloseInclusive(r, now) ==
    IF r.is_closed THEN FALSE ELSE r.open_time <= now /\ now <= r.close_time

\* The is_open value those two branches compute.
BranchIsOpen(r, now) ==
    IF r.is_closed THEN FALSE ELSE r.open_time <= now /\ now < r.close_time

\* The regular-hours tail with the is_closed test forgotten.
RegularHoursStatus_NoClosedReason(hrs, now) ==
    IF hrs = NoRow
    THEN [is_open |-> FALSE, reason |-> "No hours configured"]
    ELSE LET is_open == is_open_at(hrs, now)
         IN  IF is_open THEN [is_open |-> is_open, reason |-> "Regular hours"]
             ELSE [is_open |-> is_open, reason |-> "Outside business hours"]

\* The regular-hours tail of is_open_now (views.py:309-322).
RegularHoursStatus(hrs, now) ==
    IF hrs = NoRow
    THEN [is_open |-> FALSE, reason |-> "No hours configured"]
    ELSE LET is_open == is_open_at(hrs, now)
         IN  IF hrs.is_closed THEN [is_open |-> is_open, reason |-> "Closed today"]
             ELSE IF is_open THEN [is_open |-> is_open, reason |-> "Regular hours"]
             ELSE [is_open |-> is_open, reason |-> "Outside business hours"]

\* is_open_now consulting the special day before the override.
IsOpenNowStatus_SpecialFirst(override, special, recurring, hrs, now) ==
    IF Returns(special)
    THEN [is_open |-> BranchIsOpen(special, now), reason |-> special.name]
    ELSE IF Returns(override)
    THEN [is_open |-> BranchIsOpen(override, now), reason |-> override.reason]
    ELSE IF Returns(recurring)
    THEN [is_open |-> BranchIsOpen(recurring, now), reason |-> recurring.name]
    ELSE RegularHoursStatus(hrs, now)

\* is_open_now returning "closed" for any override found that has no full
\* interval, instead of falling through.
IsOpenNowStatus_OverrideAlwaysReturns(override, special, recurring, hrs, now) ==
    IF override # NoRow
    THEN [is_open |-> Returns(override) /\ BranchIsOpen(override, now),
          reason |-> override.reason]
    ELSE IF Returns(special)
    THEN [is_open |-> BranchIsOpen(special, now), reason |-> special.name]
    ELSE IF Returns(recurring)
    THEN [is_open |-> BranchIsOpen(recurring, now), reason |-> recurring.name]
    ELSE RegularHoursStatus(hrs, now)

\* is_open_now after its four lookups: the status it returns.
IsOpenNowStatus(override, special, recurring, hrs, now) ==
    IF Returns(override)
    THEN [is_open |-> BranchIsOpen(override, now), reason |-> override.reason]
    ELSE IF Returns(special)
    THEN [is_open |-> BranchIsOpen(special, now), reason |-> special.name]
    ELSE IF Returns(recurring)
    THEN [is_open |-> BranchIsOpen(recurring, now), reason |-> recurring.name]
    ELSE RegularHoursStatus(hrs, now)

\* GET api/is-open/ for the session's hub.
IsOpenNow(hub) ==
    /\ \E override \in OverrideToday(hub, today),
          special \in SpecialToday(hub, today),
          recurring \in RecurringToday(hub, today),
          hrs \in HoursToday(hub, Weekday(today)) :
          LET status == IsOpenNowStatus(override, special, recurring, hrs, now_time)
          IN  resp' = [view |-> "is_open_now", hub |-> hub,
                       is_open |-> status.is_open, reason |-> status.reason,
                       today |-> today,
                       current_time |-> <<Hour(now_time), Minute(now_time)>>]
    /\ UNCHANGED <<hours, specials, overrides, settings, today, now_time, frame, reqs>>

\* dashboard's is_open after its lookups (views.py:60-83).
DashboardIsOpen(today_hours, special_today, override_today, now) ==
    LET is_open0 == IF today_hours # NoRow /\ ~today_hours.is_closed
                    THEN is_open_at(today_hours, now) ELSE FALSE
        is_open1 == IF Returns(special_today)
                    THEN BranchIsOpen(special_today, now) ELSE is_open0
    IN  IF Returns(override_today)
        THEN BranchIsOpen(override_today, now) ELSE is_open1

\* GET dashboard for the session's hub: the template context.
Dashboard(hub) ==
    /\ \E today_hours \in HoursToday(hub, Weekday(today)),
          special_today \in SpecialToday(hub, today),
          override_today \in OverrideToday(hub, today),
          next_special \in NextSpecial(hub, today) :
          resp' = [view |-> "dashboard", hub |-> hub,
                   is_open |-> DashboardIsOpen(today_hours, special_today,
                                               override_today, now_time),
                   today_hours |-> today_hours,
                   special_today |-> special_today,
                   override_today |-> override_today,
                   next_special |-> next_special]
    /\ UNCHANGED <<hours, specials, overrides, settings, today, now_time, frame, reqs>>

----------------------------------------------------------------------------
(* Inputs of the resolution specification                                  *)

Hubs == {HubA, HubB}

\* The instants asked about.  2025-12-25 and 2026-12-24 are Thursdays,
\* 2026-12-25 is a Friday, 2027-12-25 a Saturday.
Dates == {D(2025, 12, 25), D(2026, 12, 24), D(2026, 12, 25), D(2027, 12, 25)}
NowTimes == {T(10, 0, 0), T(13, 30, 0), T(16, 0, 0)}

\* is_closed / open_time / close_time of an override or special day: closed,
\* closed with times left in, a full interval, and the three ways of being
\* neither closed nor a full interval.
Contents ==
    {[is_closed |-> TRUE, open_time |-> None, close_time |-> None],
     [is_closed |-> TRUE, open_time |-> T(10, 0, 0), close_time |-> T(16, 0, 0)],
     [is_closed |-> FALSE, open_time |-> T(10, 0, 0), close_time |-> T(16, 0, 0)],
     [is_closed |-> FALSE, open_time |-> None, close_time |-> None],
     [is_closed |-> FALSE, open_time |-> T(10, 0, 0), close_time |-> None],
     [is_closed |-> FALSE, open_time |-> None, close_time |-> T(16, 0, 0)]}

\* hub_id / is_deleted of a row: live in hub A, soft-deleted in hub A, live
\* in hub B.
LiveA == [hub_id |-> HubA, is_deleted |-> FALSE]
Visibilities ==
    {LiveA,
     [hub_id |-> HubA, is_deleted |-> TRUE],
     [hub_id |-> HubB, is_deleted |-> FALSE]}

\* The rows under test: a live row of hub A with any content; a soft-deleted
\* row or a row of hub B with a content that would decide the result if the
\* lookup let it through.
Variants ==
    {<<v, c>> \in Visibilities \X Contents :
        v = LiveA \/ (c.open_time # None /\ c.close_time # None)}

OverrideRow(i, v, sd, ed, reason, c) ==
    [id |-> i, hub_id |-> v.hub_id, start_date |-> sd, end_date |-> ed,
     reason |-> reason, open_time |-> c.open_time, close_time |-> c.close_time,
     is_closed |-> c.is_closed, is_deleted |-> v.is_deleted]

SpecialRow(i, v, dt, name, c, rec) ==
    [id |-> i, hub_id |-> v.hub_id, date |-> dt, name |-> name,
     is_closed |-> c.is_closed, open_time |-> c.open_time,
     close_time |-> c.close_time, recurring_yearly |-> rec, notes |-> "",
     is_deleted |-> v.is_deleted]

\* Override tables: none, or one override for 2026-12-24 .. 2026-12-25.
OverrideTables ==
    {{}} \cup
    {{OverrideRow(1, vc[1], D(2026, 12, 24), D(2026, 12, 25), "Summer hours", vc[2])} :
        vc \in Variants}

\* Special-day tables: at most one row dated 2026-12-25 and at most one live
\* row of hub A dated 2027-12-25 (closed, or neither closed nor timed).
SpecialTables ==
    LET first == {{}} \cup
            {{SpecialRow(1, vc[1], D(2026, 12, 25), "Christmas", vc[2], rec)} :
                vc \in Variants, rec \in BOOLEAN}
        second == {{}} \cup
            {{SpecialRow(2, LiveA, D(2027, 12, 25), "Inventory", c, rec)} :
                c \in {x \in Contents : x.open_time = None /\ x.close_time = None},
                rec \in BOOLEAN}
    IN  {a \cup b : a \in first, b \in second}

\* Weekly tables: Thursday 09:00-18:00 in hub A, nothing on Saturday, and on
\* Friday no row, a closed row, or a 09:00-18:00 row with a 13:00-14:00 break
\* that is live in hub A, soft-deleted, or of hub B.
HoursTables ==
    LET thu == HoursRow(1, HubA, 3, FALSE, T(9, 0, 0), T(18, 0, 0), None, None, FALSE)
        fri == {{}} \cup
            {{HoursRow(2, HubA, 4, TRUE, T(9, 0, 0), T(18, 0, 0), None, None, FALSE)}}
            \cup
            {{HoursRow(2, v.hub_id, 4, FALSE, T(9, 0, 0), T(18, 0, 0),
                       T(13, 0, 0), T(14, 0, 0), v.is_deleted)} : v \in Visibilities}
    IN  {{thu} \cup f : f \in fri}

----------------------------------------------------------------------------
(* Specification of the resolution: any stored records (rows come from the *)
(* views and from direct ORM writes alike), any instant, and the two views *)
(* that resolve it.                                                        *)

InitResolve ==
    /\ hours \in HoursTables
    /\ specials \in SpecialTables
    /\ overrides \in OverrideTables
    /\ settings = {}
    /\ today \in Dates
    /\ now_time \in NowTimes
    /\ frame = IdleFrame
    /\ resp = NoResp
    /\ reqs = NoRequests

NextResolve == \E hub \in Hubs : IsOpenNow(hub) \/ Dashboard(hub)

SpecResolve == InitResolve /\ [][NextResolve]_vars

----------------------------------------------------------------------------
(* Specification of the BusinessHours methods: one stored row, any         *)
(* settings, and the methods is_open_at and get_slots called on the row.   *)

InitHours ==
    /\ \E row \in HoursRowsUnderTest : hours = {row}
    /\ settings \in SettingsTablesUnderTest
    /\ specials = {}
    /\ overrides = {}
    /\ today = D(2026, 12, 25)
    /\ now_time = T(12, 0, 0)
    /\ frame = IdleFrame
    /\ resp = NoResp
    /\ reqs = NoRequests

NextHours == IsOpenAtCall \/ CleanCall \/ GetSlotsCall \/ GetSlotsLoop

SpecHours == InitHours /\ [][NextHours]_vars

----------------------------------------------------------------------------
(* Properties of the resolution                                            *)

\* The status in an is_open_now response.
Answer == [is_open |-> resp.is_open, reason |-> resp.reason]

\* The records of each priority tier for the responding hub, as the
\* specification describes them.
Mine(r) == r.hub_id = resp.hub /\ ~r.is_deleted
SameMonthDay(a, b) == a.month = b.month /\ a.day = b.day

Tier1 ==
    LET cover == {o \in overrides : /\ Mine(o)
                                     /\ ToOrdinal(o.start_date) <= ToOrdinal(today)
                                     /\ ToOrdinal(today) <= ToOrdinal(o.end_date)}
    IN  {o \in cover :
            \A p \in cover : ToOrdinal(p.start_date) <= ToOrdinal(o.start_date)}
Tier2 == {sd \in specials : Mine(sd) /\ sd.date = today}
Tier3 ==
    LET rec == {sd \in specials :
                   Mine(sd) /\ sd.recurring_yearly /\ SameMonthDay(sd.date, today)}
    IN  {sd \in rec : \A p \in rec : ToOrdinal(sd.date) <= ToOrdinal(p.date)}
Tier4 == {h \in hours : Mine(h) /\ h.day_of_week = Weekday(today)}

\* A tier's record, or NoRow when the tier has none.
Pick(tier) == IF tier = {} THEN {NoRow} ELSE tier

\* A record decides when it is closed or has both times.
Decides(r) ==
    r # NoRow /\ (r.is_closed \/ (r.open_time # None /\ r.close_time # None))

Verdict(r, label) ==
    [is_open |-> ~r.is_closed /\ r.open_time <= now_time /\ now_time < r.close_time,
     reason |-> label]

\* The four outcomes of the weekly tier.
WeeklyOutcome(h) ==
    IF h = NoRow THEN [is_open |-> FALSE, reason |-> "No hours configured"]
    ELSE IF h.is_closed THEN [is_open |-> FALSE, reason |-> "Closed today"]
    ELSE IF is_open_at(h, now_time) THEN [is_open |-> TRUE, reason |-> "Regular hours"]
    ELSE [is_open |-> FALSE, reason |-> "Outside business hours"]

\* The answer of a list of <<record, label>> tiers followed by the weekly tier:
\* the first deciding record's verdict, else the weekly outcome.
TierAnswer(tiers, h) ==
    LET deciding == {i \in 1 .. Len(tiers) : Decides(tiers[i][1])}
    IN  IF deciding = {} THEN WeeklyOutcome(h)
        ELSE LET i == CHOOSE k \in deciding : \A j \in deciding : k <= j
             IN  Verdict(tiers[i][1], tiers[i][2])

Label1(o) == IF o = NoRow THEN "" ELSE o.reason
Label2(sd) == IF sd = NoRow THEN "" ELSE sd.name

\* C1: is_open_now answers from the first tier, in the order override, exact
\* special day, recurring special day, weekly entry, whose record is closed or
\* has both times; lower tiers do not affect the answer.
C1_PriorityOrder ==
    resp.view = "is_open_now" =>
        \E o \in Pick(Tier1), s \in Pick(Tier2), r \in Pick(Tier3), h \in Pick(Tier4) :
            Answer = TierAnswer(<< <<o, Label1(o)>>, <<s, Label2(s)>>,
                                   <<r, Label2(r)>> >>, h)

\* C1 witness: an override marking the date closed and a special day for the
\* same date open at the asked time; the answer is closed, with the
\* override's reason.
C1_Witness ==
    /\ resp.view = "is_open_now"
    /\ \E o \in Tier1 : o.is_closed /\ resp.reason = o.reason
    /\ \E s \in Tier2 : /\ ~s.is_closed
                        /\ s.open_time # None /\ s.close_time # None
                        /\ s.open_time <= now_time /\ now_time < s.close_time
    /\ ~resp.is_open

\* C2: a record found that is not closed and lacks a time is transparent: with
\* such an override the answer is the one of tiers 2-4 alone; with such an
\* exact special day (and no deciding override) the one of tiers 3-4 alone;
\* with such a recurring special day (and nothing deciding above) the weekly
\* outcome.
C2_PassThrough ==
    resp.view = "is_open_now" =>
        \E o \in Pick(Tier1), s \in Pick(Tier2), r \in Pick(Tier3), h \in Pick(Tier4) :
            /\ (o # NoRow /\ ~Decides(o)) =>
                  Answer = TierAnswer(<< <<s, Label2(s)>>, <<r, Label2(r)>> >>, h)
            /\ (~Decides(o) /\ s # NoRow /\ ~Decides(s)) =>
                  Answer = TierAnswer(<< <<r, Label2(r)>> >>, h)
            /\ (~Decides(o) /\ ~Decides(s) /\ r # NoRow /\ ~Decides(r)) =>
                  Answer = WeeklyOutcome(h)

\* C2 witness: the override found has one time only, and the special day of
\* the date has answered.
C2_Witness ==
    /\ resp.view = "is_open_now"
    /\ \E o \in Tier1 : ~o.is_closed /\ o.open_time # None /\ o.close_time = None
    /\ \E s \in Tier2 : Decides(s) /\ resp.reason = s.name

\* C3: when no override or special day decides, the answer is exactly one of
\* (false, No hours configured), (false, Closed today), (true, Regular hours),
\* (false, Outside business hours), by the weekly entry of the weekday.
C3_WeeklyFallback ==
    (/\ resp.view = "is_open_now"
     /\ \A o \in Tier1 : ~Decides(o)
     /\ \A s \in Tier2 : ~Decides(s)
     /\ \A r \in Tier3 : ~Decides(r)) =>
        /\ Tier4 = {} =>
              Answer = [is_open |-> FALSE, reason |-> "No hours configured"]
        /\ \A h \in Tier4 :
              /\ h.is_closed =>
                    Answer = [is_open |-> FALSE, reason |-> "Closed today"]
              /\ (~h.is_closed /\ is_open_at(h, now_time)) =>
                    Answer = [is_open |-> TRUE, reason |-> "Regular hours"]
              /\ (~h.is_closed /\ ~is_open_at(h, now_time)) =>
                    Answer = [is_open |-> FALSE, reason |-> "Outside business hours"]
        /\ resp.reason \in {"No hours configured", "Closed today", "Regular hours",
                            "Outside business hours"}
        /\ resp.is_open <=> resp.reason = "Regular hours"

\* C3 witness: asked during the Friday break, nothing above the weekly tier.
C3_Witness ==
    /\ resp.view = "is_open_now"
    /\ overrides = {}
    /\ specials = {}
    /\ \E h \in Tier4 : InBreak(h, now_time)
    /\ Answer = [is_open |-> FALSE, reason |-> "Outside business hours"]

\* A special day matches a date: its exact date, or with recurring_yearly the
\* same month and day in any year.
Matches(sd, dt) ==
    sd.date = dt \/ (sd.recurring_yearly /\ SameMonthDay(sd.date, dt))

\* C4: a special day answers only for dates it matches (a recurring one for
\* its month and day in any year, a non-recurring one for its exact date), and
\* a deciding special day that is the only one matching the date answers for
\* it unless an override decides.
C4_RecurringMatch ==
    resp.view = "is_open_now" =>
        \A sd \in specials :
            /\ resp.reason = sd.name => (Mine(sd) /\ Matches(sd, today))
            /\ (/\ Mine(sd)
                /\ Decides(sd)
                /\ Matches(sd, today)
                /\ \A o \in Tier1 : ~Decides(o)
                /\ \A q \in specials : (Mine(q) /\ Matches(q, today)) => q = sd)
               => Answer = Verdict(sd, sd.name)

\* C4 witness: a recurring special day has answered for its month and day in
\* a year other than the stored one.
C4_Witness ==
    /\ resp.view = "is_open_now"
    /\ \E sd \in specials : /\ sd.recurring_yearly
                            /\ sd.date.year # today.year
                            /\ resp.reason = sd.name

\* The is_open values is_open_now can return for a hub at this instant.
IsOpenNowValues(hub) ==
    {IsOpenNowStatus(o, s, r, h, now_time).is_open :
        o \in OverrideToday(hub, today), s \in SpecialToday(hub, today),
        r \in RecurringToday(hub, today), h \in HoursToday(hub, Weekday(today))}

\* C5: the dashboard's is_open equals the is_open of is_open_now for the same
\* records, date and time.
C5_DashboardAgrees ==
    resp.view = "dashboard" => resp.is_open \in IsOpenNowValues(resp.hub)

----------------------------------------------------------------------------
(* Properties of the BusinessHours methods                                 *)

\* The row the current frame was called on.
Self == CHOOSE h \in hours : h.id = frame.self

HasBreak(h) == h.break_start # None /\ h.break_end # None

\* BusinessHours.clean() accepts the row.
ValidHours(h) ==
    h.is_closed \/
    (/\ h.open_time < h.close_time
     /\ HasBreak(h) => (/\ h.break_start < h.break_end
                        /\ h.break_start >= h.open_time
                        /\ h.break_end <= h.close_time))

\* The times pos, pos + d minutes, pos + 2d minutes, ... strictly before close.
RECURSIVE ArithSlots(_, _, _)
ArithSlots(pos, close, d) ==
    IF pos < close THEN <<pos>> \o ArithSlots(pos + d * 60, close, d) ELSE <<>>

SlotSet(sl) == {sl[i] : i \in 1 .. Len(sl)}

\* C6: for a non-closed weekly entry, is_open_at(t) is true iff
\* open_time <= t < close_time and t is not inside a break that has both ends
\* set; open and break-start boundaries are inclusive, close is exclusive, and
\* t = break_end is open when it lies within the hours.
C6_IsOpenAtInterval ==
    (frame.op = "is_open_at" /\ ~Self.is_closed) =>
        LET h == Self
            t == frame.check_time
        IN  /\ frame.result =
                  (/\ h.open_time <= t
                   /\ t < h.close_time
                   /\ ~(HasBreak(h) /\ h.break_start <= t /\ t < h.break_end))
            /\ (t = h.close_time) => ~frame.result
            /\ (t = h.open_time /\ t < h.close_time /\ ~HasBreak(h)) => frame.result
            /\ (HasBreak(h) /\ t = h.break_start /\ t < h.break_end) => ~frame.result
            /\ (HasBreak(h) /\ t = h.break_end /\ h.open_time <= t /\ t < h.close_time)
                  => frame.result

\* C6 witness: 09:00-18:00 with break 13:00-14:00 asked at 14:00 (= break_end).
C6_Witness ==
    /\ frame.op = "is_open_at"
    /\ ~Self.is_closed
    /\ Self.open_time = T(9, 0, 0) /\ Self.close_time = T(18, 0, 0)
    /\ Self.break_start = T(13, 0, 0) /\ Self.break_end = T(14, 0, 0)
    /\ frame.check_time = T(14, 0, 0)
    /\ frame.result

\* C7: on a weekly entry with is_closed = true, is_open_at is false for every
\* time and get_slots returns the empty sequence, whatever times are stored.
C7_ClosedEntry ==
    (frame.op # "none" /\ Self.is_closed) =>
        /\ frame.op = "is_open_at" => ~frame.result
        /\ frame.op = "get_slots" => (frame.pc = "returned" /\ frame.slots = <<>>)

\* C7 witness: get_slots has returned on a closed row whose stored hours
\* (09:00-18:00) would otherwise produce slots.
C7_Witness ==
    /\ frame.op = "get_slots"
    /\ frame.pc = "returned"
    /\ Self.is_closed
    /\ Self.open_time = T(9, 0, 0) /\ Self.close_time = T(18, 0, 0)
    /\ frame.slots = <<>>

\* C8: for a non-closed entry without a break and a positive stride d,
\* get_slots returns exactly open_time + k*d (k = 0, 1, ...) strictly before
\* close_time.
C8_SlotsAreOpenPlusMultiples ==
    (/\ frame.op = "get_slots"
     /\ ~Self.is_closed
     /\ ~HasBreak(Self)
     /\ frame.pc # "loop"
     /\ frame.duration > 0) =>
        /\ frame.pc = "returned"
        /\ frame.slots = ArithSlots(Self.open_time, Self.close_time, frame.duration)

\* The position of get_slots fell inside the break during the run.
EnteredBreak == \E c \in frame.visited : InBreak(Self, c)

\* C9: for a non-closed entry with a break, no returned slot lies inside the
\* break; once the position falls inside the break, break_end is a slot iff
\* break_end < close_time and the slots from break_end on are break_end + k*d;
\* a break starting at open_time makes break_end the first slot, a break
\* ending at close_time leaves no slot at or after break_start.
C9_SlotsSkipBreak ==
    (/\ frame.op = "get_slots"
     /\ ~Self.is_closed
     /\ HasBreak(Self)
     /\ ValidHours(Self)
     /\ frame.duration > 0
     /\ frame.pc = "returned") =>
        LET h == Self
            sl == frame.slots
        IN  /\ \A i \in 1 .. Len(sl) : ~(h.break_start <= sl[i] /\ sl[i] < h.break_end)
            /\ EnteredBreak =>
                  /\ (h.break_end \in SlotSet(sl)) <=> (h.break_end < h.close_time)
                  /\ \A i \in 1 .. Len(sl) : sl[i] = h.break_end =>
                        SubSeq(sl, i, Len(sl)) =
                            ArithSlots(h.break_end, h.close_time, frame.duration)
            /\ (h.break_start = h.open_time /\ sl # <<>>) => sl[1] = h.break_end
            /\ (h.break_end = h.close_time) =>
                  \A i \in 1 .. Len(sl) : sl[i] < h.break_start

\* C10: get_slots terminates and returns a finite sequence for every stored
\* entry and every slot_duration the settings row can hold.
C10_GetSlotsTerminates ==
    frame.op = "get_slots" => frame.pc \in {"loop", "returned"}

----------------------------------------------------------------------------
(* Request bodies                                                          *)

\* request.body: text json.loads rejects, or the JSON object it parses to
\* (a function from the keys supplied to their values).
Malformed == [malformed |-> TRUE]
Json(data) == [json |-> data]
Parses(body) == "json" \in DOMAIN body

\* data.get(key, default) and data.get(key) (None when the key is absent).
Get(data, key, default) == IF key \in DOMAIN data THEN data[key] ELSE default
Has(data, key) == key \in DOMAIN data

\* JSON values sent for an integer field: a number or a string.
Num(n) == [num |-> n]
Str(s) == [str |-> s]

\* int(v): the number itself, the value of a decimal string, or ValueError.
DecimalValue == [s \in {"15"} |-> 15]
IntRaises(v) == "str" \in DOMAIN v /\ v.str \notin DOMAIN DecimalValue
Int_(v) == IF "num" \in DOMAIN v THEN v.num ELSE DecimalValue[v.str]

\* The ways of sending one key: leaving it out, or giving it a value.
Option(key, values) == {<<>>} \cup {[k \in {key} |-> v] : v \in values}

----------------------------------------------------------------------------
(* Properties of BusinessHours.clean                                       *)

\* C12: BusinessHours.clean raises ValidationError iff is_closed is false and
\* (open_time >= close_time, or a break is set with break_start >= break_end,
\* break_start < open_time, or break_end > close_time); equal open and close
\* times fail, a break touching open_time or close_time passes, and a closed
\* entry passes whatever its times.
C12_CleanRaisesIff ==
    frame.op = "clean" =>
        LET h == Self
            bad == \/ h.open_time >= h.close_time
                   \/ /\ HasBreak(h)
                      /\ \/ h.break_start >= h.break_end
                         \/ h.break_start < h.open_time
                         \/ h.break_end > h.close_time
        IN  /\ frame.pc \in {"raised", "returned"}
            /\ (frame.pc = "raised") <=> (~h.is_closed /\ bad)
            /\ (~h.is_closed /\ h.open_time = h.close_time) => frame.pc = "raised"
            /\ (/\ ~h.is_closed
                /\ h.open_time < h.close_time
                /\ HasBreak(h)
                /\ h.break_start < h.break_end
                /\ \/ h.break_start = h.open_time /\ h.break_end <= h.close_time
                   \/ h.break_end = h.close_time /\ h.break_start >= h.open_time)
                  => frame.pc = "returned"
            /\ h.is_closed => frame.pc = "returned"

\* clean() raised on a non-closed entry whose open and close times are equal.
C12_Witness ==
    /\ frame.op = "clean"
    /\ frame.pc = "raised"
    /\ ~Self.is_closed
    /\ Self.open_time = Self.close_time
    /\ ~HasBreak(Self)

----------------------------------------------------------------------------
(* settings_view and settings_save                                         *)

\* GET settings/ for the session's hub.
SettingsView(hub) ==
    LET got == get_settings(settings, hub)
    IN  /\ settings' = got.table
        /\ resp' = [view |-> "settings", hub |-> hub, config |-> got.row]
        /\ UNCHANGED <<hours, specials, overrides, today, now_time, frame, reqs>>

\* settings_save taking the field default for a key the body leaves out.
SettingsAssigned_DefaultsForAbsent(row, data) ==
    [row EXCEPT
        !.timezone = Get(data, "timezone", DefaultTimezone),
        !.week_starts_on = IF Has(data, "week_starts_on")
                           THEN Int_(data.week_starts_on) ELSE DefaultWeekStartsOn,
        !.slot_duration = IF Has(data, "slot_duration")
                          THEN Int_(data.slot_duration) ELSE DefaultSlotDuration,
        !.auto_close_enabled = Get(data, "auto_close_enabled", FALSE)]

\* The row settings_save writes: each field from the body, or as it was.
SettingsAssigned(row, data) ==
    [row EXCEPT
        !.timezone = Get(data, "timezone", row.timezone),
        !.week_starts_on = IF Has(data, "week_starts_on")
                           THEN Int_(data.week_starts_on) ELSE row.week_starts_on,
        !.slot_duration = IF Has(data, "slot_duration")
                          THEN Int_(data.slot_duration) ELSE row.slot_duration,
        !.auto_close_enabled = Get(data, "auto_close_enabled", row.auto_close_enabled)]

\* JsonResponse({'success': False, 'error': ...}, status=400) and
\* JsonResponse({'success': True}).
Failure(view, hub, status) ==
    [view |-> view, hub |-> hub, success |-> FALSE, status |-> status]
Success(view, hub) ==
    [view |-> view, hub |-> hub, success |-> TRUE, status |-> 200]

\* A response together with the request body it answers.
Answering(body, response) == [request |-> body] @@ response

\* POST settings/save/ for the session's hub.
SettingsSave(hub, body) ==
    /\ IF ~Parses(body)
       THEN /\ resp' = Answering(body, Failure("settings_save", hub, 400))
            /\ UNCHANGED settings
       ELSE LET data == body.json
                got == get_settings(settings, hub)
            IN  IF \/ Has(data, "week_starts_on") /\ IntRaises(data.week_starts_on)
                   \/ Has(data, "slot_duration") /\ IntRaises(data.slot_duration)
                THEN /\ resp' = Answering(body, Failure("settings_save", hub, 400))
                     /\ settings' = got.table
                ELSE /\ resp' = Answering(body, Success("settings_save", hub))
                     /\ settings' = (got.table \ {got.row})
                                       \cup {SettingsAssigned(got.row, data)}
    /\ UNCHANGED <<hours, specials, overrides, today, now_time, frame, reqs>>

----------------------------------------------------------------------------
(* Specification of the settings: an empty settings table and the two      *)
(* settings views, requested for two hubs.                                 *)

SettingsObjects ==
    {tz @@ wso @@ dur @@ ace :
        tz \in Option("timezone", {"UTC"}),
        wso \in Option("week_starts_on", {Num(7)}),
        dur \in Option("slot_duration", {Str("15"), Str("abc")}),
        ace \in Option("auto_close_enabled", {TRUE})}

SettingsBodies == {Malformed} \cup {Json(d) : d \in SettingsObjects}

InitSettings ==
    /\ hours = {}
    /\ specials = {}
    /\ overrides = {}
    /\ settings = {}
    /\ today = D(2026, 12, 25)
    /\ now_time = T(9, 30, 0)
    /\ frame = IdleFrame
    /\ resp = NoResp
    /\ reqs = NoRequests

NextSettings ==
    \/ \E hub \in Hubs : SettingsView(hub)
    \/ \E hub \in Hubs, body \in SettingsBodies : SettingsSave(hub, body)

SpecSettings == InitSettings /\ [][NextSettings]_vars

----------------------------------------------------------------------------
(* Specification of the read paths: weekly entries of two hubs, no         *)
(* settings or the settings of hub A, and get_slots, is_open_now and       *)
(* dashboard.                                                              *)

InitReads ==
    /\ hours = {HoursRow(1, HubA, 4, FALSE, T(9, 0, 0), T(10, 0, 0), None, None, FALSE),
                HoursRow(2, HubB, 4, FALSE, T(9, 0, 0), T(9, 30, 0), None, None, FALSE),
                HoursRow(3, HubA, 5, TRUE, T(9, 0, 0), T(18, 0, 0), None, None, FALSE)}
    /\ specials = {}
    /\ overrides = {}
    /\ settings \in SettingsTablesUnderTest
    /\ today = D(2026, 12, 25)
    /\ now_time \in NowTimes
    /\ frame = IdleFrame
    /\ resp = NoResp
    /\ reqs = NoRequests

NextReads ==
    \/ GetSlotsCall
    \/ GetSlotsLoop
    \/ \E hub \in Hubs : IsOpenNow(hub)
    \/ \E hub \in Hubs : Dashboard(hub)

SpecReads == InitReads /\ [][NextReads]_vars

----------------------------------------------------------------------------
(* Properties of the read paths and of the settings                        *)

\* A step of one of the read paths: a BusinessHours.get_slots step, an
\* is_open_now request or a dashboard request.  (Each action implies the
\* conjunct put in front of it.)
ReadStep ==
    \/ resp' = resp /\ (GetSlotsCall \/ GetSlotsLoop)
    \/ /\ frame' = frame
       /\ resp'.view \in {"is_open_now", "dashboard"}
       /\ \E hub \in Hubs : IsOpenNow(hub) \/ Dashboard(hub)

\* C11 (as stated): get_slots, is_open_now and dashboard leave every stored
\* record unchanged: no settings, weekly-entry, special-day or override row is
\* created, modified or deleted by the call.
C11_ReadOnly ==
    [][ReadStep => UNCHANGED <<hours, specials, overrides, settings>>]_vars

\* C11 (amended): get_slots, is_open_now and dashboard leave every weekly-entry,
\* special-day and override row unchanged and never modify or delete a
\* settings row; is_open_now and dashboard leave the settings unchanged too,
\* and the one write of get_slots is the creation of the entry's hub's settings
\* row, with the defaults, when the entry is not closed and the hub has none.
C11_ReadOnlyButLazySettings ==
    [][ReadStep =>
        /\ UNCHANGED <<hours, specials, overrides>>
        /\ \/ UNCHANGED settings
           \/ /\ frame'.op = "get_slots"
              /\ frame' # frame
              /\ \E self \in hours :
                    /\ self.id = frame'.self
                    /\ ~self.is_closed
                    /\ \A s \in settings : s.hub_id # self.hub_id
                    /\ \E created \in settings' :
                          /\ settings' = settings \cup {created}
                          /\ created.hub_id = self.hub_id
                          /\ created.timezone = "Europe/Madrid"
                          /\ created.week_starts_on = 1
                          /\ created.slot_duration = 30
                          /\ ~created.auto_close_enabled]_vars

\* get_slots has returned the slots of hub B's entry, and hub B, which had no
\* settings row, has one.
C11_Witness ==
    /\ frame.op = "get_slots"
    /\ frame.pc = "returned"
    /\ frame.self = 2
    /\ Len(frame.slots) > 0
    /\ \E s \in settings : s.hub_id = HubB

\* The settings rows of a hub.
SettingsOf(tbl, hub) == {r \in tbl : r.hub_id = hub}

HasDefaults(r) ==
    /\ r.timezone = "Europe/Madrid"
    /\ r.week_starts_on = 1
    /\ r.slot_duration = 30
    /\ ~r.auto_close_enabled

\* C15: ScheduleSettings is a per-hub singleton: get_settings creates the
\* record with the defaults when the hub has none and otherwise returns the
\* existing one unchanged, so after any sequence of get_settings and
\* settings_save calls there is exactly one record per hub accessed, and
\* repeated get_settings calls return the same record.
C15_SettingsSingleton ==
    [][/\ \A a, b \in settings' : a.hub_id = b.hub_id => a = b
       /\ resp'.view = "settings" =>
             LET before == SettingsOf(settings, resp'.hub)
             IN  /\ SettingsOf(settings', resp'.hub) = {resp'.config}
                 /\ IF before = {}
                    THEN HasDefaults(resp'.config) /\ settings' = settings \cup {resp'.config}
                    ELSE before = {resp'.config} /\ settings' = settings
       /\ (resp'.view = "settings_save" /\ resp'.success) =>
             Cardinality(SettingsOf(settings', resp'.hub)) = 1]_vars

\* get_settings returned the record of a hub that settings_save had changed
\* before, while the other hub has its own record.
C15_Witness ==
    /\ resp.view = "settings"
    /\ resp.config \in settings
    /\ resp.config.slot_duration = 15
    /\ resp.config.timezone = "UTC"
    /\ Cardinality(settings) = 2

SettingsFields == {"timezone", "week_starts_on", "slot_duration", "auto_close_enabled"}

\* C16: settings_save changes only the fields supplied in the request: each of
\* timezone, week_starts_on, slot_duration and auto_close_enabled that is
\* absent from the body keeps its previously stored value (the default, when
\* the request itself creates the record).
C16_SettingsPartialUpdate ==
    [][(resp'.view = "settings_save" /\ resp'.success) =>
          LET data == resp'.request.json
              before == SettingsOf(settings, resp'.hub)
              old == IF before = {} THEN NewSettings(resp'.hub)
                     ELSE CHOOSE r \in before : TRUE
          IN  \E new \in SettingsOf(settings', resp'.hub) :
                 /\ \A f \in SettingsFields \ DOMAIN data : new[f] = old[f]
                 /\ settings' \ {new} = settings \ before]_vars

\* A settings_save with only a timezone was served for a hub whose stored
\* week start, slot duration and auto-close flag were not the defaults.
C16_Witness ==
    /\ resp.view = "settings_save"
    /\ resp.success
    /\ DOMAIN resp.request.json = {"timezone"}
    /\ \E r \in SettingsOf(settings, resp.hub) :
          /\ r.timezone = "UTC"
          /\ r.week_starts_on = 7
          /\ r.slot_duration = 15
          /\ r.auto_close_enabled

----------------------------------------------------------------------------
(* edit_hours                                                              *)

\* TimeField.to_python on the strings a body carries: "HH:MM" to a time.
TimeOfString ==
    [s \in {"09:00", "10:00", "13:00", "14:00", "16:00", "18:00"} |->
        CASE s = "09:00" -> T(9, 0, 0)
          [] s = "10:00" -> T(10, 0, 0)
          [] s = "13:00" -> T(13, 0, 0)
          [] s = "14:00" -> T(14, 0, 0)
          [] s = "16:00" -> T(16, 0, 0)
          [] s = "18:00" -> T(18, 0, 0)]

\* A string the TimeField rejects when the row is saved.
TimeRaises(s) == s # "" /\ s \notin DOMAIN TimeOfString

\* The column value of "data.get(key) or None": an absent key and the empty
\* string both give NULL.
TimeOrNone(data, key) ==
    IF Has(data, key) /\ data[key] # "" THEN TimeOfString[data[key]] ELSE None

\* The values edit_hours reads from the body (views.py:112-117).
HoursDay(data) ==
    IF Has(data, "day_of_week") THEN Int_(data.day_of_week) ELSE 0

HoursValues(data) ==
    [is_closed |-> Get(data, "is_closed", FALSE),
     open_time |-> TimeOfString[Get(data, "open_time", "09:00")],
     close_time |-> TimeOfString[Get(data, "close_time", "18:00")],
     break_start |-> TimeOrNone(data, "break_start"),
     break_end |-> TimeOrNone(data, "break_end")]

\* The body makes edit_hours raise before or while it writes.
HoursBodyRaises(body) ==
    \/ ~Parses(body)
    \/ Has(body.json, "day_of_week") /\ IntRaises(body.json.day_of_week)
    \/ TimeRaises(Get(body.json, "open_time", "09:00"))
    \/ TimeRaises(Get(body.json, "close_time", "18:00"))
    \/ TimeRaises(Get(body.json, "break_start", ""))
    \/ TimeRaises(Get(body.json, "break_end", ""))

\* BusinessHours.all_objects.filter(hub_id=, day_of_week=): soft-deleted rows
\* included.
HoursOf(tbl, hub, day) == {r \in tbl : r.hub_id = hub /\ r.day_of_week = day}

\* A table without its unique constraint: no insert is ever refused.
UniqueViolation_NoConstraint(tbl, hub, day) == FALSE

\* unique_together (hub_id, day_of_week): the insert of a second row for the
\* hub and day raises IntegrityError.
UniqueViolation(tbl, hub, day) == HoursOf(tbl, hub, day) # {}

\* The INSERT of get_or_create's create().
HoursInserted(tbl, hub, data) ==
    LET v == HoursValues(data)
    IN  tbl \cup {HoursRow(NextId(tbl), hub, HoursDay(data), v.is_closed,
                           v.open_time, v.close_time, v.break_start,
                           v.break_end, FALSE)}

\* The update branch that leaves is_deleted as it was.
HoursUpdated_KeepsDeleted(tbl, id, data) ==
    LET v == HoursValues(data)
    IN  {IF r.id # id THEN r
         ELSE [r EXCEPT !.is_closed = v.is_closed, !.open_time = v.open_time,
                        !.close_time = v.close_time,
                        !.break_start = v.break_start,
                        !.break_end = v.break_end] : r \in tbl}

\* "if not created": the five assignments, is_deleted = False, and save().
HoursUpdated(tbl, id, data) ==
    LET v == HoursValues(data)
    IN  {IF r.id # id THEN r
         ELSE [r EXCEPT !.is_closed = v.is_closed, !.open_time = v.open_time,
                        !.close_time = v.close_time,
                        !.break_start = v.break_start,
                        !.break_end = v.break_end,
                        !.is_deleted = FALSE] : r \in tbl}

\* The table after edit_hours served alone (no other request in between).
EditHoursAlone(tbl, hub, body) ==
    IF HoursBodyRaises(body) THEN tbl
    ELSE LET found == HoursOf(tbl, hub, HoursDay(body.json))
         IN  IF found = {} THEN HoursInserted(tbl, hub, body.json)
             ELSE HoursUpdated(tbl, (CHOOSE r \in found : TRUE).id, body.json)

\* POST hours/edit/: the body is parsed and get_or_create runs its SELECT.
EditHoursBegin(w, hub, body) ==
    /\ reqs[w].pc = "idle"
    /\ IF HoursBodyRaises(body)
       THEN /\ resp' = Failure("edit_hours", hub, 400)
            /\ UNCHANGED reqs
       ELSE LET found == HoursOf(hours, hub, HoursDay(body.json))
            IN  /\ reqs' = [reqs EXCEPT ![w] =
                             [pc |-> IF found = {} THEN "create" ELSE "update",
                              view |-> "edit_hours", hub |-> hub, body |-> body,
                              id |-> IF found = {} THEN None
                                     ELSE (CHOOSE r \in found : TRUE).id]]
                /\ UNCHANGED resp
    /\ UNCHANGED <<hours, specials, overrides, settings, today, now_time, frame>>

\* get_or_create found no row: its INSERT.  When another request has inserted
\* the row meanwhile the INSERT raises IntegrityError, get_or_create fetches
\* that row and returns it with created = False.
EditHoursCreate(w) ==
    /\ reqs[w].pc = "create"
    /\ LET r == reqs[w]
           day == HoursDay(r.body.json)
       IN  IF UniqueViolation(hours, r.hub, day)
           THEN /\ reqs' = [reqs EXCEPT ![w].pc = "update",
                                        ![w].id = (CHOOSE x \in HoursOf(hours, r.hub, day) : TRUE).id]
                /\ UNCHANGED <<hours, resp>>
           ELSE /\ hours' = HoursInserted(hours, r.hub, r.body.json)
                /\ resp' = Success("edit_hours", r.hub)
                /\ reqs' = [reqs EXCEPT ![w] = IdleRequest]
    /\ UNCHANGED <<specials, overrides, settings, today, now_time, frame>>

\* get_or_create returned an existing row: the assignments and save().
EditHoursUpdate(w) ==
    /\ reqs[w].pc = "update"
    /\ hours' = HoursUpdated(hours, reqs[w].id, reqs[w].body.json)
    /\ resp' = Success("edit_hours", reqs[w].hub)
    /\ reqs' = [reqs EXCEPT ![w] = IdleRequest]
    /\ UNCHANGED <<specials, overrides, settings, today, now_time, frame>>

\* BusinessHours.delete() on a live row: the soft delete of the base model.
SoftDeleteHours(h) ==
    /\ h \in hours
    /\ ~h.is_deleted
    /\ hours' = (hours \ {h}) \cup {[h EXCEPT !.is_deleted = TRUE]}
    /\ UNCHANGED <<specials, overrides, settings, today, now_time, frame, resp, reqs>>

----------------------------------------------------------------------------
(* Specification of the weekly hours: an empty table, edit_hours requests  *)
(* of two hubs served concurrently, and soft deletions.                    *)

\* The weekday edited: 2026-12-25 is a Friday.
Friday == Num(4)

HoursBodies ==
    {Malformed,
     Json([day_of_week |-> Str("abc")]),
     Json([day_of_week |-> Friday]),
     Json([day_of_week |-> Friday, break_start |-> "", break_end |-> ""]),
     Json([day_of_week |-> Friday, is_closed |-> TRUE,
           open_time |-> "18:00", close_time |-> "09:00"]),
     Json([day_of_week |-> Friday, is_closed |-> FALSE,
           open_time |-> "18:00", close_time |-> "09:00"]),
     Json([day_of_week |-> Friday, open_time |-> "09:00", close_time |-> "18:00",
           break_start |-> "13:00", break_end |-> "14:00"])}

\* The requests served: any of the bodies for hub A, one body for hub B.
HoursRequests ==
    {[hub |-> HubA, body |-> b] : b \in HoursBodies}
    \cup {[hub |-> HubB, body |-> Json([day_of_week |-> Friday, is_closed |-> TRUE])]}

InitWeekly ==
    /\ hours = {}
    /\ specials = {}
    /\ overrides = {}
    /\ settings = {}
    /\ today = D(2026, 12, 25)
    /\ now_time = T(13, 30, 0)
    /\ frame = IdleFrame
    /\ resp = NoResp
    /\ reqs = NoRequests

NextWeekly ==
    \/ \E w \in Workers, rq \in HoursRequests : EditHoursBegin(w, rq.hub, rq.body)
    \/ \E w \in Workers : EditHoursCreate(w)
    \/ \E w \in Workers : EditHoursUpdate(w)
    \/ \E h \in hours : SoftDeleteHours(h)

SpecWeekly == InitWeekly /\ [][NextWeekly]_vars

----------------------------------------------------------------------------
(* Properties of the weekly hours                                          *)

\* C13: after any sequence of edit_hours requests, every stored weekly entry
\* that is not closed satisfies open_time < close_time and, if it has a break,
\* open_time <= break_start < break_end <= close_time.
C13_StoredHoursValid ==
    \A h \in hours :
        ~h.is_closed =>
            /\ h.open_time < h.close_time
            /\ HasBreak(h) => /\ h.open_time <= h.break_start
                              /\ h.break_start < h.break_end
                              /\ h.break_end <= h.close_time

\* C14: after any interleaving of edit_hours requests and soft deletions there
\* is at most one weekly-entry row, soft-deleted rows counted, per hub and
\* weekday.
C14_OneRowPerHubAndDay ==
    \A a, b \in hours :
        (a.hub_id = b.hub_id /\ a.day_of_week = b.day_of_week) => a = b

\* Two requests for the same hub and day both found no row; one has inserted
\* its row, the other is about to run its INSERT.
C14_Witness ==
    \E w \in Workers :
        /\ reqs[w].pc = "create"
        /\ HoursOf(hours, reqs[w].hub, HoursDay(reqs[w].body.json)) # {}

\* The values a body submits, key by key, and a row holding them: a time
\* string stands for that time, an empty break string for no break.
Submitted(data, h) ==
    /\ Has(data, "day_of_week") => h.day_of_week = Int_(data.day_of_week)
    /\ Has(data, "is_closed") => h.is_closed = data.is_closed
    /\ Has(data, "open_time") => h.open_time = TimeOfString[data.open_time]
    /\ Has(data, "close_time") => h.close_time = TimeOfString[data.close_time]
    /\ \A k \in {"break_start", "break_end"} :
          Has(data, k) => h[k] = IF data[k] = "" THEN None ELSE TimeOfString[data[k]]

\* C20: when an edit_hours request succeeds, the hub's one non-deleted weekly
\* entry for the day holds exactly the submitted values, whether the request
\* inserted the row, updated a live row or restored a soft-deleted one; and
\* the same request served again leaves the table as it is.
C20_UpsertRoundTrip ==
    [][\A w \in Workers :
          (reqs[w].pc \in {"create", "update"} /\ reqs'[w].pc = "idle") =>
              LET r == reqs[w]
                  data == r.body.json
                  live == {h \in hours' : /\ h.hub_id = r.hub
                                          /\ h.day_of_week = Int_(data.day_of_week)
                                          /\ ~h.is_deleted}
              IN  /\ resp' = Success("edit_hours", r.hub)
                  /\ \E h \in live : live = {h} /\ Submitted(data, h)
                  /\ EditHoursAlone(hours', r.hub, r.body) = hours']_vars

\* An edit_hours request found the soft-deleted row of its hub and day, whose
\* values differ from the submitted ones, and is about to save it.
C20_Witness ==
    \E w \in Workers, h \in hours :
        /\ reqs[w].pc = "update"
        /\ h.id = reqs[w].id
        /\ h.is_deleted
        /\ ~Submitted(reqs[w].body.json, h)
        /\ resp = Success("edit_hours", reqs[w].hub)

----------------------------------------------------------------------------
(* special_days, add_special_day, edit_special_day, delete_special_day     *)

\* DateField.to_python on the strings a body carries: "YYYY-MM-DD" to a date.
DateOfString ==
    [s \in {"2026-12-25", "2027-12-25"} |->
        IF s = "2026-12-25" THEN D(2026, 12, 25) ELSE D(2027, 12, 25)]

\* clean() testing open_time > close_time, so that equal times pass.
SpecialDayClean_EqualTimesPass(self) ==
    IF self.is_closed THEN ""
    ELSE IF self.open_time = None \/ self.close_time = None
    THEN "Open time and close time are required when the day is not fully closed."
    ELSE IF self.open_time > self.close_time
    THEN "Open time must be before close time."
    ELSE ""

\* SpecialDay.clean(): the message of the ValidationError it raises, or "".
SpecialDayClean(self) ==
    IF self.is_closed THEN ""
    ELSE IF self.open_time = None \/ self.close_time = None
    THEN "Open time and close time are required when the day is not fully closed."
    ELSE IF self.open_time >= self.close_time
    THEN "Open time must be before close time."
    ELSE ""

\* A body whose values the fields of SpecialDay cannot take: no date (the
\* column is NOT NULL), or a date or time string the field rejects.
SpecialBodyRaises(data, date_required) ==
    \/ date_required /\ ~Has(data, "date")
    \/ Has(data, "date") /\ data.date \notin DOMAIN DateOfString
    \/ TimeRaises(Get(data, "open_time", ""))
    \/ TimeRaises(Get(data, "close_time", ""))

\* full_clean() on an instance whose date and times parse: the name must not
\* be blank, clean() must pass, and no other row of the hub may hold the date
\* (unique_together; on a soft-deleted holder the INSERT or UPDATE fails).
FullCleanRaises(tbl, row) ==
    \/ row.name = ""
    \/ SpecialDayClean(row) # ""
    \/ \E r \in tbl : r.id # row.id /\ r.hub_id = row.hub_id /\ r.date = row.date

\* SpecialDay(hub_id=hub, date=data.get('date'), ...) of add_special_day.
SpecialCandidate(tbl, hub, data) ==
    [id |-> NextId(tbl), hub_id |-> hub, date |-> DateOfString[data.date],
     name |-> Get(data, "name", ""),
     is_closed |-> Get(data, "is_closed", TRUE),
     open_time |-> TimeOrNone(data, "open_time"),
     close_time |-> TimeOrNone(data, "close_time"),
     recurring_yearly |-> Get(data, "recurring_yearly", FALSE),
     notes |-> Get(data, "notes", ""),
     is_deleted |-> FALSE]

\* The seven assignments of edit_special_day (views.py:214-220).
SpecialAssigned(special, data) ==
    [special EXCEPT
        !.date = IF Has(data, "date") THEN DateOfString[data.date] ELSE @,
        !.name = Get(data, "name", @),
        !.is_closed = Get(data, "is_closed", @),
        !.open_time = TimeOrNone(data, "open_time"),
        !.close_time = TimeOrNone(data, "close_time"),
        !.recurring_yearly = Get(data, "recurring_yearly", @),
        !.notes = Get(data, "notes", @)]

\* get_object_or_404(SpecialDay, id=pk, hub_id=hub, is_deleted=False): the
\* row, or none when Http404 is raised.
SpecialOr404(hub, pk) == {sd \in LiveOf(specials, hub) : sd.id = pk}

\* The orders in which order_by('date') may list rows (equal dates come in an
\* order the database chooses).
RECURSIVE ByDate(_)
ByDate(rows) ==
    IF rows = {} THEN {<<>>}
    ELSE UNION {{<<m>> \o rest : rest \in ByDate(rows \ {m})} :
                   m \in {x \in rows : \A y \in rows : DateLE(x.date, y.date)}}

\* The orders in which order_by('-start_date') may list rows.
RECURSIVE ByStartDateDesc(_)
ByStartDateDesc(rows) ==
    IF rows = {} THEN {<<>>}
    ELSE UNION {{<<m>> \o rest : rest \in ByStartDateDesc(rows \ {m})} :
                   m \in {x \in rows : \A y \in rows : DateLE(y.start_date, x.start_date)}}

\* GET special-days/ for the session's hub: the template context.
SpecialDaysList(hub) ==
    /\ \E special_days_list \in ByDate(LiveOf(specials, hub)),
          overrides_list \in ByStartDateDesc(LiveOf(overrides, hub)) :
          resp' = [view |-> "special_days", hub |-> hub,
                   special_days |-> special_days_list,
                   overrides |-> overrides_list]
    /\ UNCHANGED <<hours, specials, overrides, settings, today, now_time, frame, reqs>>

\* The most rows the special-day table is filled with.
MaxSpecialDays == 2

\* POST special-days/add/ for the session's hub.
AddSpecialDay(hub, body) ==
    /\ Cardinality(specials) < MaxSpecialDays
    /\ IF ~Parses(body) \/ SpecialBodyRaises(body.json, TRUE)
       THEN /\ resp' = Answering(body, Failure("add_special_day", hub, 400))
            /\ UNCHANGED specials
       ELSE LET special == SpecialCandidate(specials, hub, body.json)
            IN  IF FullCleanRaises(specials, special)
                THEN /\ resp' = Answering(body, Failure("add_special_day", hub, 400))
                     /\ UNCHANGED specials
                ELSE /\ resp' = [id |-> special.id]
                                   @@ Answering(body, Success("add_special_day", hub))
                     /\ specials' = specials \cup {special}
    /\ UNCHANGED <<hours, overrides, settings, today, now_time, frame, reqs>>

\* edit_special_day calling save() before full_clean(): a row that fails the
\* validation is answered 400 and stored all the same.
EditSpecialDay_SavesFirst(hub, pk, body) ==
    /\ LET failed == [pk |-> pk] @@ Answering(body, Failure("edit_special_day", hub, 400))
           found == SpecialOr404(hub, pk)
       IN  IF found = {} \/ ~Parses(body) \/ SpecialBodyRaises(body.json, FALSE)
           THEN resp' = failed /\ UNCHANGED specials
           ELSE LET loaded == CHOOSE sd \in found : TRUE
                    special == SpecialAssigned(loaded, body.json)
                IN  /\ specials' = (specials \ {loaded}) \cup {special}
                    /\ resp' = IF FullCleanRaises(specials, special) THEN failed
                               ELSE [pk |-> pk]
                                       @@ Answering(body, Success("edit_special_day", hub))
    /\ UNCHANGED <<hours, overrides, settings, today, now_time, frame, reqs>>

\* POST special-days/<pk>/edit/ for the session's hub.  Http404 is raised
\* inside the try block, so "except Exception" turns it into a 400 response.
EditSpecialDay(hub, pk, body) ==
    /\ LET failed == [pk |-> pk] @@ Answering(body, Failure("edit_special_day", hub, 400))
           found == SpecialOr404(hub, pk)
       IN  IF found = {} \/ ~Parses(body) \/ SpecialBodyRaises(body.json, FALSE)
           THEN resp' = failed /\ UNCHANGED specials
           ELSE LET loaded == CHOOSE sd \in found : TRUE
                    special == SpecialAssigned(loaded, body.json)
                IN  IF FullCleanRaises(specials, special)
                    THEN resp' = failed /\ UNCHANGED specials
                    ELSE /\ resp' = [pk |-> pk]
                                       @@ Answering(body, Success("edit_special_day", hub))
                         /\ specials' = (specials \ {loaded}) \cup {special}
    /\ UNCHANGED <<hours, overrides, settings, today, now_time, frame, reqs>>

\* POST special-days/<pk>/delete/ for the session's hub: get_object_or_404
\* outside the try block, then the soft delete.
DeleteSpecialDay(hub, pk) ==
    /\ LET found == SpecialOr404(hub, pk)
       IN  IF found = {}
           THEN /\ resp' = [pk |-> pk] @@ Failure("delete_special_day", hub, 404)
                /\ UNCHANGED specials
           ELSE LET special == CHOOSE sd \in found : TRUE
                IN  /\ resp' = [pk |-> pk] @@ Success("delete_special_day", hub)
                    /\ specials' = (specials \ {special})
                                      \cup {[special EXCEPT !.is_deleted = TRUE]}
    /\ UNCHANGED <<hours, overrides, settings, today, now_time, frame, reqs>>

----------------------------------------------------------------------------
(* Specification of the special days: an empty table, a weekly entry for   *)
(* the day, and the special-day views requested for two hubs.              *)

SpecialAddBodies ==
    {Malformed,
     Json([name |-> "No date"]),
     Json([date |-> "2026-12-25", is_closed |-> FALSE]),
     Json([date |-> "2026-12-25", name |-> "Christmas", is_closed |-> TRUE,
           open_time |-> "10:00", close_time |-> "16:00",
           recurring_yearly |-> TRUE, notes |-> "short day"]),
     Json([date |-> "2027-12-25", name |-> "Inventory", is_closed |-> FALSE,
           open_time |-> "10:00", close_time |-> "16:00"])}

SpecialEditBodies ==
    {Malformed,
     Json([name |-> "Navidad"]),
     Json([is_closed |-> TRUE]),
     Json([date |-> "2027-12-25", open_time |-> "09:00", close_time |-> "18:00"]),
     Json([is_closed |-> FALSE, open_time |-> "10:00", close_time |-> "16:00",
           recurring_yearly |-> FALSE, notes |-> ""])}

\* The requests served: any of the bodies for hub A; for hub B one add body
\* and one edit body.
SpecialAddRequests ==
    {[hub |-> HubA, body |-> b] : b \in SpecialAddBodies}
    \cup {[hub |-> HubB, body |-> Json([date |-> "2026-12-25", name |-> "Fiesta"])]}

SpecialEditRequests ==
    {[hub |-> HubA, body |-> b] : b \in SpecialEditBodies}
    \cup {[hub |-> HubB, body |-> Json([name |-> "Navidad"])]}

SpecialIds == 1 .. MaxSpecialDays

InitSpecials ==
    /\ hours = {HoursRow(1, HubA, 4, FALSE, T(9, 0, 0), T(18, 0, 0), None, None, FALSE)}
    /\ specials = {}
    /\ overrides = {}
    /\ settings = {}
    /\ today = D(2026, 12, 25)
    /\ now_time = T(13, 30, 0)
    /\ frame = IdleFrame
    /\ resp = NoResp
    /\ reqs = NoRequests

NextSpecials ==
    \/ \E rq \in SpecialAddRequests : AddSpecialDay(rq.hub, rq.body)
    \/ \E rq \in SpecialEditRequests, pk \in SpecialIds : EditSpecialDay(rq.hub, pk, rq.body)
    \/ \E hub \in Hubs, pk \in SpecialIds : DeleteSpecialDay(hub, pk)
    \/ \E hub \in Hubs : SpecialDaysList(hub)
    \/ \E hub \in Hubs : IsOpenNow(hub)
    \/ \E hub \in Hubs : Dashboard(hub)

SpecSpecials == InitSpecials /\ [][NextSpecials]_vars

----------------------------------------------------------------------------
(* Properties of the special days                                          *)

SpecialFields ==
    {"date", "name", "is_closed", "open_time", "close_time", "recurring_yearly",
     "notes"}

\* The special-day row with a primary key.
SpecialById(tbl, pk) == CHOOSE sd \in tbl : sd.id = pk

\* C17: edit_special_day changes only the fields supplied in the request: each
\* of date, name, is_closed, open_time, close_time, recurring_yearly and notes
\* that is absent from the body keeps its previously stored value.
C17_EditPartialUpdate ==
    [][(resp'.view = "edit_special_day" /\ resp'.success) =>
          LET data == resp'.request.json
              old == SpecialById(specials, resp'.pk)
              new == SpecialById(specials', resp'.pk)
          IN  \A f \in SpecialFields \ DOMAIN data : new[f] = old[f]]_vars

\* A row of a response is a stored row that is not soft-deleted, or no row.
LiveOrNoRow(r) == r = NoRow \/ (r \in specials /\ ~r.is_deleted)

\* C18: when delete_special_day succeeds the row stays in storage with
\* is_deleted = true and nothing else changed; from then on the row stays as
\* it is (no view restores it), no is_open_now answer carries it as its
\* reason, the dashboard shows it neither as today's nor as the next special
\* day, and the special-days list is the hub's non-deleted rows only.
C18_SoftDeletedExcluded ==
    [][/\ (resp'.view = "delete_special_day" /\ resp'.success) =>
             \E old \in specials :
                /\ old.id = resp'.pk
                /\ ~old.is_deleted
                /\ specials' = (specials \ {old}) \cup {[old EXCEPT !.is_deleted = TRUE]}
       /\ \A sd \in specials : sd.is_deleted => sd \in specials'
       /\ resp'.view = "is_open_now" =>
             \A sd \in specials :
                (sd.is_deleted /\ sd.hub_id = resp'.hub /\ resp'.reason = sd.name) =>
                    \E other \in specials :
                       /\ ~other.is_deleted
                       /\ other.hub_id = sd.hub_id
                       /\ other.name = sd.name
       /\ resp'.view = "dashboard" =>
             /\ LiveOrNoRow(resp'.special_today)
             /\ LiveOrNoRow(resp'.next_special)
       /\ resp'.view = "special_days" =>
             {resp'.special_days[i] : i \in 1 .. Len(resp'.special_days)}
                = {sd \in specials : sd.hub_id = resp'.hub /\ ~sd.is_deleted}]_vars

\* Hub A's special day for today is soft-deleted, and is_open_now has answered
\* for hub A from the weekly entry.
C18_Witness ==
    /\ \E sd \in specials :
          sd.is_deleted /\ sd.hub_id = HubA /\ sd.date = today /\ sd.is_closed
    /\ resp.view = "is_open_now"
    /\ resp.hub = HubA
    /\ resp.is_open
    /\ resp.reason = "Regular hours"

----------------------------------------------------------------------------
(* Specification of two tenants: every view that writes and the two views  *)
(* that resolve, requested by two hubs with one body each; hub B also owns *)
(* a closing override for the day and a settings record.                   *)

TenantHoursRequests ==
    {[hub |-> HubA, body |-> Json([day_of_week |-> Friday])],
     [hub |-> HubB, body |-> Json([day_of_week |-> Friday, is_closed |-> TRUE])]}

TenantAddRequests ==
    {[hub |-> HubA, body |-> Json([date |-> "2026-12-25", name |-> "Christmas"])],
     [hub |-> HubB, body |-> Json([date |-> "2026-12-25", name |-> "Fiesta",
                                   is_closed |-> FALSE, open_time |-> "10:00",
                                   close_time |-> "16:00"])]}

TenantEditRequests ==
    {[hub |-> HubA, body |-> Json([name |-> "Navidad"])],
     [hub |-> HubB, body |-> Json([is_closed |-> TRUE])]}

TenantSettingsRequests ==
    {[hub |-> HubA, body |-> Json([timezone |-> "UTC", slot_duration |-> Num(15)])]}

InitTenants ==
    /\ hours = {}
    /\ specials = {}
    /\ overrides = {OverrideRow(1, [hub_id |-> HubB, is_deleted |-> FALSE],
                                D(2026, 12, 24), D(2026, 12, 25), "Works",
                                [is_closed |-> TRUE, open_time |-> None,
                                 close_time |-> None])}
    /\ settings = {[NewSettings(HubB) EXCEPT !.id = 1]}
    /\ today = D(2026, 12, 25)
    /\ now_time = T(13, 30, 0)
    /\ frame = IdleFrame
    /\ resp = NoResp
    /\ reqs = NoRequests

NextTenants ==
    \/ \E rq \in TenantHoursRequests : EditHoursBegin(1, rq.hub, rq.body)
    \/ EditHoursCreate(1)
    \/ EditHoursUpdate(1)
    \/ \E h \in hours : SoftDeleteHours(h)
    \/ \E rq \in TenantAddRequests : AddSpecialDay(rq.hub, rq.body)
    \/ \E rq \in TenantEditRequests, pk \in SpecialIds : EditSpecialDay(rq.hub, pk, rq.body)
    \/ \E hub \in Hubs, pk \in SpecialIds : DeleteSpecialDay(hub, pk)
    \/ \E rq \in TenantSettingsRequests : SettingsSave(rq.hub, rq.body)
    \/ \E hub \in Hubs : IsOpenNow(hub)
    \/ \E hub \in Hubs : Dashboard(hub)

SpecTenants == InitTenants /\ [][NextTenants]_vars

----------------------------------------------------------------------------
(* Properties of the tenants                                               *)

\* The stored records of a hub.
RowsOf(hub) ==
    <<{r \in hours : r.hub_id = hub}, {r \in specials : r.hub_id = hub},
      {r \in overrides : r.hub_id = hub}, {r \in settings : r.hub_id = hub}>>

\* The answers is_open_now can give a hub, and the contexts dashboard can
\* give it, in the current state.
IsOpenNowResults(hub) ==
    {IsOpenNowStatus(o, s, r, h, now_time) :
        o \in OverrideToday(hub, today), s \in SpecialToday(hub, today),
        r \in RecurringToday(hub, today), h \in HoursToday(hub, Weekday(today))}

DashboardResults(hub) ==
    {[is_open |-> DashboardIsOpen(h, s, o, now_time), today_hours |-> h,
      special_today |-> s, override_today |-> o, next_special |-> n] :
        h \in HoursToday(hub, Weekday(today)), s \in SpecialToday(hub, today),
        o \in OverrideToday(hub, today), n \in NextSpecial(hub, today)}

MutatingViews ==
    {"edit_hours", "add_special_day", "edit_special_day", "delete_special_day",
     "settings_save"}

\* C19: the results of is_open_now and dashboard for a hub depend only on the
\* hub's own records: a step that creates, changes or deletes records of
\* another hub, and none of the hub's own, leaves both results as they were,
\* and an is_open_now answer is one the hub's own records give; and the
\* writing views of a hub never modify a record of another hub: every change
\* to a hub's records is made by a request of that hub (or is the deletion
\* of one of its rows).
C19_TenantIsolation ==
    [][\A hub \in Hubs :
          /\ (/\ RowsOf(hub)' = RowsOf(hub)
              /\ \E other \in Hubs \ {hub} : RowsOf(other)' # RowsOf(other)) =>
                /\ IsOpenNowResults(hub)' = IsOpenNowResults(hub)
                /\ DashboardResults(hub)' = DashboardResults(hub)
          /\ RowsOf(hub)' # RowsOf(hub) =>
                \/ resp'.view \in MutatingViews /\ resp'.hub = hub
                \/ \E h \in hours : h.hub_id = hub /\ SoftDeleteHours(h)
          /\ (/\ resp' # resp
              /\ resp'.view \in {"is_open_now", "dashboard"}
              /\ resp'.hub = hub) =>
                /\ RowsOf(hub)' = RowsOf(hub)
                /\ resp'.view = "is_open_now" =>
                      [is_open |-> resp'.is_open, reason |-> resp'.reason]
                          \in IsOpenNowResults(hub)]_vars

\* Hub B holds a closed weekly entry, an open special day and a closing
\* override for today; hub A holds an open weekly entry only, and is_open_now
\* has answered "Regular hours" for hub A.
C19_Witness ==
    /\ \E h \in hours : h.hub_id = HubB /\ h.is_closed /\ ~h.is_deleted
    /\ \E sd \in specials : sd.hub_id = HubB /\ ~sd.is_deleted /\ sd.date = today
    /\ \E o \in overrides : o.hub_id = HubB /\ ~o.is_deleted
    /\ \E h \in hours : h.hub_id = HubA /\ ~h.is_closed /\ ~h.is_deleted
    /\ \A sd \in specials : sd.hub_id # HubA
    /\ resp.view = "is_open_now"
    /\ resp.hub = HubA
    /\ resp.is_open
    /\ resp.reason = "Regular hours"

----------------------------------------------------------------------------
(* Specification of the special-day validation: SpecialDay.clean called on *)
(* unsaved instances, and add_special_day and edit_special_day requested   *)
(* with bodies that pass and bodies that fail the validation.              *)

\* is_closed / open_time / close_time of the instances clean() is called on:
\* those of Contents, and non-closed ones with equal and with reversed times.
CleanContents ==
    Contents \cup
    {[is_closed |-> FALSE, open_time |-> T(10, 0, 0), close_time |-> T(10, 0, 0)],
     [is_closed |-> FALSE, open_time |-> T(16, 0, 0), close_time |-> T(10, 0, 0)]}

\* SpecialDay(...).clean() on an instance that is not saved.
SpecialCleanCall ==
    /\ \E c \in CleanContents :
          LET self == SpecialRow(None, LiveA, D(2026, 12, 25), "Christmas", c, FALSE)
              error == SpecialDayClean(self)
          IN  frame' = [IdleFrame EXCEPT !.op = "special_clean",
                                         !.pc = IF error = "" THEN "returned"
                                                ELSE "raised",
                                         !.self = self, !.error = error]
    /\ UNCHANGED <<hours, specials, overrides, settings, today, now_time, resp, reqs>>

ValidationAddBodies ==
    {Json([date |-> "2026-12-25", name |-> "Christmas"]),
     Json([date |-> "2026-12-25", name |-> "Christmas", is_closed |-> FALSE]),
     Json([date |-> "2026-12-25", name |-> "Christmas", is_closed |-> FALSE,
           open_time |-> "10:00"]),
     Json([date |-> "2027-12-25", name |-> "Inventory", is_closed |-> FALSE,
           open_time |-> "10:00", close_time |-> "10:00"]),
     Json([date |-> "2027-12-25", name |-> "Inventory", is_closed |-> FALSE,
           open_time |-> "16:00", close_time |-> "10:00"]),
     Json([date |-> "2027-12-25", name |-> "Inventory", is_closed |-> FALSE,
           open_time |-> "10:00", close_time |-> "16:00"])}

ValidationEditBodies ==
    {Json([name |-> "Navidad"]),
     Json([is_closed |-> FALSE]),
     Json([is_closed |-> FALSE, close_time |-> "16:00"]),
     Json([is_closed |-> FALSE, open_time |-> "18:00", close_time |-> "18:00"]),
     Json([is_closed |-> FALSE, open_time |-> "18:00", close_time |-> "09:00"]),
     Json([is_closed |-> FALSE, open_time |-> "09:00", close_time |-> "18:00"]),
     Json([is_closed |-> TRUE, open_time |-> "18:00", close_time |-> "09:00"])}

InitValidation ==
    /\ hours = {}
    /\ specials = {}
    /\ overrides = {}
    /\ settings = {}
    /\ today = D(2026, 12, 25)
    /\ now_time = T(13, 30, 0)
    /\ frame = IdleFrame
    /\ resp = NoResp
    /\ reqs = NoRequests

NextValidation ==
    \/ SpecialCleanCall
    \/ \E body \in ValidationAddBodies : AddSpecialDay(HubA, body)
    \/ \E body \in ValidationEditBodies, pk \in SpecialIds :
          EditSpecialDay(HubA, pk, body)

SpecValidation == InitValidation /\ [][NextValidation]_vars

----------------------------------------------------------------------------
(* Properties of the special-day validation                                *)

\* C21: SpecialDay.clean raises ValidationError iff is_closed is false and
\* (open_time or close_time is missing, or open_time >= close_time), and passes
\* for a closed day without times; and after any sequence of add_special_day
\* and edit_special_day requests every stored non-closed special day has both
\* times, with open_time < close_time.
C21_SpecialDayValid ==
    /\ frame.op = "special_clean" =>
          LET sd == frame.self
          IN  /\ frame.pc \in {"raised", "returned"}
              /\ (frame.pc = "raised") <=>
                    /\ ~sd.is_closed
                    /\ \/ sd.open_time = None
                       \/ sd.close_time = None
                       \/ sd.open_time >= sd.close_time
              /\ (sd.is_closed /\ sd.open_time = None /\ sd.close_time = None)
                    => frame.pc = "returned"
    /\ \A sd \in specials :
          ~sd.is_closed => /\ sd.open_time # None
                           /\ sd.close_time # None
                           /\ sd.open_time < sd.close_time

\* clean() has raised on an instance with equal times, a non-closed special
\* day is stored with its interval, and the last request, an edit that would
\* have given a stored day equal times, was refused.
C21_Witness ==
    /\ frame.op = "special_clean"
    /\ frame.pc = "raised"
    /\ frame.self.open_time = frame.self.close_time
    /\ frame.self.open_time # None
    /\ \E sd \in specials : ~sd.is_closed /\ sd.open_time < sd.close_time
    /\ resp.view = "edit_special_day"
    /\ ~resp.success
    /\ Has(resp.request.json, "open_time")
    /\ resp.pk \in {sd.id : sd \in specials}

----------------------------------------------------------------------------
(* ScheduleOverride.clean                                                  *)

\* A date attribute that is not set (None) on an unsaved instance.
NoDate == [year |-> None, month |-> None, day |-> None]

\* clean() testing start_date >= end_date, so that a single-day override fails.
ScheduleOverrideClean_SameDayRaises(self) ==
    IF self.start_date # NoDate /\ self.end_date # NoDate
       /\ DateLE(self.end_date, self.start_date)
    THEN "Start date must be on or before end date."
    ELSE ""

\* ScheduleOverride.clean(): the message of the ValidationError it raises, or
\* "".  (start_date > end_date is the negation of start_date <= end_date.)
ScheduleOverrideClean(self) ==
    IF self.start_date # NoDate /\ self.end_date # NoDate
       /\ ~DateLE(self.start_date, self.end_date)
    THEN "Start date must be on or before end date."
    ELSE ""

----------------------------------------------------------------------------
(* Specification of the overrides: one or two stored overrides of hub A    *)
(* around 2026-12-24 .. 2026-12-26, a weekly entry open on each of the     *)
(* days, ScheduleOverride.clean called on unsaved instances, and the two   *)
(* resolving views.  (No view writes overrides: rows come from ORM writes, *)
(* which do not call clean.)                                               *)

\* 2026-12-23 is a Wednesday, 2026-12-26 a Saturday.
OverrideDates ==
    {D(2026, 12, 23), D(2026, 12, 24), D(2026, 12, 25), D(2026, 12, 26)}

\* start_date / end_date of the instances clean() is called on: the cases of
\* the tests (reversed, same day), an ordered range, and unset dates.
CleanRanges ==
    {<<D(2026, 8, 31), D(2026, 7, 1)>>, <<D(2026, 7, 1), D(2026, 7, 1)>>,
     <<D(2026, 12, 24), D(2026, 12, 25)>>, <<D(2026, 12, 25), D(2026, 12, 24)>>,
     <<D(2025, 12, 31), D(2026, 1, 1)>>, <<D(2026, 1, 1), D(2025, 12, 31)>>,
     <<NoDate, D(2026, 7, 1)>>, <<D(2026, 7, 1), NoDate>>}

\* ScheduleOverride(...).clean() on an instance that is not saved.
OverrideCleanCall ==
    /\ \E rg \in CleanRanges :
          LET self == OverrideRow(None, LiveA, rg[1], rg[2], "Invalid",
                                  [is_closed |-> FALSE, open_time |-> None,
                                   close_time |-> None])
              error == ScheduleOverrideClean(self)
          IN  frame' = [IdleFrame EXCEPT !.op = "override_clean",
                                         !.pc = IF error = "" THEN "returned"
                                                ELSE "raised",
                                         !.self = self, !.error = error]
    /\ UNCHANGED <<hours, specials, overrides, settings, today, now_time, resp, reqs>>

\* The first stored override: a two-day range, a single day, or a reversed
\* range; closed, with an interval, or with neither.
FirstOverrides ==
    {OverrideRow(1, LiveA, rg[1], rg[2], "Summer hours", c) :
        rg \in {<<D(2026, 12, 24), D(2026, 12, 25)>>,
                <<D(2026, 12, 25), D(2026, 12, 25)>>,
                <<D(2026, 12, 25), D(2026, 12, 24)>>},
        c \in {x \in Contents : x.is_closed = (x.open_time = None)
                                 /\ (x.open_time = None) = (x.close_time = None)}
               \cup {[is_closed |-> FALSE, open_time |-> None, close_time |-> None]}}

\* The second stored override, ending on 2026-12-26: closed, or with an
\* interval the asked time lies outside of.
SecondOverrides ==
    {OverrideRow(2, LiveA, sd, D(2026, 12, 26), "Works", c) :
        sd \in {D(2026, 12, 24), D(2026, 12, 25)},
        c \in {[is_closed |-> TRUE, open_time |-> None, close_time |-> None],
               [is_closed |-> FALSE, open_time |-> T(14, 0, 0),
                close_time |-> T(18, 0, 0)]}}

OverridesUnderTest ==
    {{}} \cup {{a} : a \in FirstOverrides}
         \cup {{a, b} : a \in FirstOverrides, b \in SecondOverrides}

InitOverrides ==
    /\ hours = {HoursRow(d - 1, HubA, d, FALSE, T(9, 0, 0), T(18, 0, 0),
                          None, None, FALSE) : d \in 2 .. 5}
    /\ specials = {}
    /\ overrides \in OverridesUnderTest
    /\ settings = {}
    /\ today \in OverrideDates
    /\ now_time = T(13, 30, 0)
    /\ frame = IdleFrame
    /\ resp = NoResp
    /\ reqs = NoRequests

NextOverrides ==
    \/ OverrideCleanCall
    \/ \E hub \in Hubs : IsOpenNow(hub)
    \/ \E hub \in Hubs : Dashboard(hub)

SpecOverrides == InitOverrides /\ [][NextOverrides]_vars

----------------------------------------------------------------------------
(* Properties of the overrides                                             *)

\* a <= b on dates, by year, then month, then day.
OnOrBefore(a, b) ==
    \/ a.year < b.year
    \/ a.year = b.year /\ a.month < b.month
    \/ a.year = b.year /\ a.month = b.month /\ a.day <= b.day

\* C22: ScheduleOverride.clean raises ValidationError iff start_date >
\* end_date; an override whose start_date equals its end_date is valid; and
\* the range an override covers includes both end points: the lookup of
\* is_open_now and dashboard finds an override for a date iff
\* start_date <= date <= end_date.
C22_OverrideRange ==
    /\ frame.op = "override_clean" =>
          LET o == frame.self
              dated == o.start_date # NoDate /\ o.end_date # NoDate
          IN  /\ frame.pc \in {"raised", "returned"}
              /\ (frame.pc = "raised") <=>
                    (dated /\ ~OnOrBefore(o.start_date, o.end_date))
              /\ (dated /\ o.start_date = o.end_date) => frame.pc = "returned"
    /\ resp.view = "dashboard" =>
          LET covering == {o \in overrides :
                              /\ o.hub_id = resp.hub
                              /\ ~o.is_deleted
                              /\ OnOrBefore(o.start_date, today)
                              /\ OnOrBefore(today, o.end_date)}
          IN  IF covering = {} THEN resp.override_today = NoRow
              ELSE resp.override_today \in covering
    /\ resp.view = "is_open_now" =>
          \A o \in overrides :
              /\ resp.reason = o.reason =>
                    (OnOrBefore(o.start_date, today) /\ OnOrBefore(today, o.end_date))
              /\ (/\ overrides = {o}
                  /\ o.hub_id = resp.hub
                  /\ Decides(o)
                  /\ OnOrBefore(o.start_date, today)
                  /\ OnOrBefore(today, o.end_date)) =>
                    resp.reason = o.reason

\* clean() has returned on a single-day instance, and is_open_now has answered
\* from the one stored override, a single-day one, on its day.
C22_Witness ==
    /\ frame.op = "override_clean"
    /\ frame.pc = "returned"
    /\ frame.self.start_date = frame.self.end_date
    /\ resp.view = "is_open_now"
    /\ \E o \in overrides :
          /\ overrides = {o}
          /\ o.start_date = today
          /\ o.end_date = today
          /\ resp.reason = o.reason

----------------------------------------------------------------------------
(* settings_save served concurrently                                       *)

\* settings_save up to settings.save(): the body is parsed, get_settings
\* loads (or creates) the hub's row, and the fields are assigned on the
\* loaded instance.
SettingsSaveBegin(w, hub, body) ==
    /\ reqs[w].pc = "idle"
    /\ IF ~Parses(body)
       THEN /\ resp' = Answering(body, Failure("settings_save", hub, 400))
            /\ UNCHANGED <<settings, reqs>>
       ELSE LET data == body.json
                got == get_settings(settings, hub)
            IN  /\ settings' = got.table
                /\ IF \/ Has(data, "week_starts_on") /\ IntRaises(data.week_starts_on)
                      \/ Has(data, "slot_duration") /\ IntRaises(data.slot_duration)
                   THEN /\ resp' = Answering(body, Failure("settings_save", hub, 400))
                        /\ UNCHANGED reqs
                   ELSE /\ reqs' = [reqs EXCEPT ![w] =
                                      [pc |-> "save", view |-> "settings_save",
                                       hub |-> hub, body |-> body,
                                       row |-> SettingsAssigned(got.row, data)]]
                        /\ UNCHANGED resp
    /\ UNCHANGED <<hours, specials, overrides, today, now_time, frame>>

\* settings.save(): the UPDATE of every column of the row with the
\* instance's primary key, from the instance as loaded and assigned.
SettingsSaveCommit(w) ==
    /\ reqs[w].pc = "save"
    /\ settings' = {IF r.id = reqs[w].row.id THEN reqs[w].row ELSE r : r \in settings}
    /\ resp' = Answering(reqs[w].body, Success("settings_save", reqs[w].hub))
    /\ reqs' = [reqs EXCEPT ![w] = IdleRequest]
    /\ UNCHANGED <<hours, specials, overrides, today, now_time, frame>>

----------------------------------------------------------------------------
(* Specification of the settings saves: an empty settings table and        *)
(* settings_save requests of hub A served concurrently.                    *)

SaveBodies ==
    {Malformed,
     Json([timezone |-> "UTC"]),
     Json([slot_duration |-> Num(15)]),
     Json([slot_duration |-> Num(0)]),
     Json([slot_duration |-> Str("abc")]),
     Json([week_starts_on |-> Num(8)])}

InitSaves ==
    /\ hours = {}
    /\ specials = {}
    /\ overrides = {}
    /\ settings = {}
    /\ today = D(2026, 12, 25)
    /\ now_time = T(13, 30, 0)
    /\ frame = IdleFrame
    /\ resp = NoResp
    /\ reqs = NoRequests

NextSaves ==
    \/ \E w \in Workers, body \in SaveBodies : SettingsSaveBegin(w, HubA, body)
    \/ \E w \in Workers : SettingsSaveCommit(w)

SpecSaves == InitSaves /\ [][NextSaves]_vars

----------------------------------------------------------------------------
(* Properties of the settings saves                                        *)

\* C23: in every reachable state, after any sequence of settings_save
\* requests, each hub's settings satisfy 1 <= week_starts_on <= 7 and
\* 5 <= slot_duration <= 120.
C23_SettingsInRange ==
    \A r \in settings :
        /\ 1 <= r.week_starts_on /\ r.week_starts_on <= 7
        /\ 5 <= r.slot_duration /\ r.slot_duration <= 120

\* C30: concurrent settings_save requests for the same hub that supply
\* disjoint fields both take effect under every interleaving: the save that
\* completes a request gives each field the request supplies its submitted
\* value and leaves every other field as it is stored at that moment (as a
\* concurrent request may just have written it), so that no update is lost.
C30_NoLostUpdate ==
    [][\A w \in Workers :
          (reqs[w].pc = "save" /\ reqs'[w].pc = "idle") =>
              LET data == reqs[w].body.json
                  old == CHOOSE r \in settings : r.id = reqs[w].row.id
                  new == CHOOSE r \in settings' : r.id = reqs[w].row.id
              IN  /\ Has(data, "timezone") => new.timezone = data.timezone
                  /\ Has(data, "slot_duration") =>
                        new.slot_duration = Int_(data.slot_duration)
                  /\ Has(data, "week_starts_on") =>
                        new.week_starts_on = Int_(data.week_starts_on)
                  /\ \A f \in SettingsFields \ DOMAIN data : new[f] = old[f]]_vars

----------------------------------------------------------------------------
(* The list_special_days tool                                              *)

\* The slice [:20] of ListSpecialDays.execute.
UpcomingLimit == 20

\* SpecialDay.objects: the default manager leaves out soft-deleted rows and
\* applies no other filter.
Objects(tbl) == {r \in tbl : ~r.is_deleted}

\* seq[:n].
Sliced(seq, n) == SubSeq(seq, 1, IF Len(seq) < n THEN Len(seq) ELSE n)

\* The dictionary the tool returns for a row.
ListedDay(sd) ==
    [date |-> sd.date, name |-> sd.name, is_closed |-> sd.is_closed,
     notes |-> sd.notes]

\* ListSpecialDays.execute(args, request) for a request of the hub:
\* SpecialDay.objects.filter(date__gte=date.today()).order_by('date')[:20].
ListSpecialDays(hub) ==
    /\ \E ordered \in ByDate({sd \in Objects(specials) : DateLE(today, sd.date)}) :
          LET upcoming == Sliced(ordered, UpcomingLimit)
          IN  resp' = [view |-> "list_special_days", hub |-> hub,
                       special_days |-> [i \in 1 .. Len(upcoming) |->
                                            ListedDay(upcoming[i])]]
    /\ UNCHANGED <<hours, specials, overrides, settings, today, now_time, frame, reqs>>

----------------------------------------------------------------------------
(* Specification of the upcoming special days: stored special days of two  *)
(* hubs, past and future, live and soft-deleted, or more days of one hub   *)
(* than the tool lists; the tool and the dashboard.                        *)

UpcomingCandidates ==
    {SpecialRow(1, LiveA, D(2025, 12, 25), "Last Christmas",
                [is_closed |-> TRUE, open_time |-> None, close_time |-> None], FALSE),
     SpecialRow(2, LiveA, D(2026, 12, 25), "Christmas",
                [is_closed |-> TRUE, open_time |-> None, close_time |-> None], FALSE),
     SpecialRow(3, LiveA, D(2027, 12, 25), "Inventory",
                [is_closed |-> FALSE, open_time |-> T(10, 0, 0),
                 close_time |-> T(16, 0, 0)], FALSE),
     SpecialRow(4, [hub_id |-> HubA, is_deleted |-> TRUE], D(2026, 12, 24),
                "Cancelled",
                [is_closed |-> TRUE, open_time |-> None, close_time |-> None], FALSE),
     SpecialRow(5, [hub_id |-> HubB, is_deleted |-> FALSE], D(2026, 12, 26),
                "Fiesta",
                [is_closed |-> TRUE, open_time |-> None, close_time |-> None], FALSE)}

\* One more day than the tool lists, all of hub A, in January 2027.
ManyDays ==
    {SpecialRow(d, LiveA, D(2027, 1, d), "Sale",
                [is_closed |-> FALSE, open_time |-> T(10, 0, 0),
                 close_time |-> T(16, 0, 0)], FALSE) : d \in 1 .. UpcomingLimit + 1}

InitUpcoming ==
    /\ hours = {}
    /\ specials \in (SUBSET UpcomingCandidates) \cup {ManyDays}
    /\ overrides = {}
    /\ settings = {}
    /\ today \in {D(2026, 12, 24), D(2026, 12, 25)}
    /\ now_time = T(13, 30, 0)
    /\ frame = IdleFrame
    /\ resp = NoResp
    /\ reqs = NoRequests

NextUpcoming ==
    \/ \E hub \in Hubs : ListSpecialDays(hub)
    \/ \E hub \in Hubs : Dashboard(hub)

SpecUpcoming == InitUpcoming /\ [][NextUpcoming]_vars

----------------------------------------------------------------------------
(* Properties of the upcoming special days                                 *)

\* The requesting hub's non-deleted special days dated on or after the
\* reference date, in the orders ascending by date.
UpcomingOf(hub) ==
    ByDate({sd \in specials : /\ sd.hub_id = hub
                               /\ ~sd.is_deleted
                               /\ OnOrBefore(today, sd.date)})

\* C24: the upcoming-special-days lookup (the list_special_days tool with
\* limit 20, the dashboard's next_special with limit 1) returns exactly the
\* first `limit` special days, ascending by date, among the requesting hub's
\* non-deleted special days dated on or after the reference date; never a
\* special day of another hub or a soft-deleted one.
C24_UpcomingOfHub ==
    /\ resp.view = "list_special_days" =>
          \E ordered \in UpcomingOf(resp.hub) :
              LET expected == Sliced(ordered, 20)
              IN  resp.special_days =
                      [i \in 1 .. Len(expected) |-> ListedDay(expected[i])]
    /\ resp.view = "dashboard" =>
          \E ordered \in UpcomingOf(resp.hub) :
              IF ordered = <<>> THEN resp.next_special = NoRow
              ELSE resp.next_special = ordered[1]

\* The answer of is_open_now, and the is_open of dashboard, when the override
\* o is the only record consulted above the weekly entry h (the hub has no
\* special day in this specification).
ByOverrideAlone(o, h) ==
    IF resp.view = "is_open_now"
    THEN Answer = TierAnswer(<< <<o, o.reason>> >>, h)
    ELSE /\ resp.override_today = o
         /\ resp.is_open = IF Decides(o) THEN Verdict(o, o.reason).is_open
                           ELSE WeeklyOutcome(h).is_open

\* C25 (as stated): when several non-deleted overrides cover the date,
\* is_open_now and dashboard consult exactly one of them, the one with the
\* greatest start_date, the same on every call while the stored records are
\* unchanged: the result is the one that override gives, whatever the other
\* covering overrides hold.
C25_GreatestStartDecides ==
    resp.view \in {"is_open_now", "dashboard"} =>
        \A o \in Tier1, h \in Pick(Tier4) : ByOverrideAlone(o, h)

\* C25 (amended): when several non-deleted overrides cover the date,
\* is_open_now and dashboard consult exactly one of them, one with the
\* greatest start_date, and the other covering overrides have no effect on
\* the result, even if the one consulted is a pass-through and another is
\* marked closed; when a single covering override has the greatest
\* start_date it is the one consulted on every call, and among several with
\* that start_date the one consulted is the database's choice.
C25_OneOverrideConsulted ==
    resp.view \in {"is_open_now", "dashboard"} =>
        /\ \A h \in Pick(Tier4) :
              Tier1 # {} => \E o \in Tier1 : ByOverrideAlone(o, h)
        /\ Cardinality(Tier1) = 1 =>
              \A o \in Tier1, h \in Pick(Tier4) : ByOverrideAlone(o, h)

\* Two overrides cover the date: the one with the greater start_date has
\* neither the closed flag nor times, the other is marked closed; and
\* is_open_now has answered from the weekly entry.
C25_Witness ==
    /\ resp.view = "is_open_now"
    /\ resp.hub = HubA
    /\ \E o \in Tier1 : ~Decides(o)
    /\ \E p \in overrides \ Tier1 :
          /\ p.is_closed
          /\ OnOrBefore(p.start_date, today)
          /\ OnOrBefore(today, p.end_date)
    /\ Answer = [is_open |-> TRUE, reason |-> "Regular hours"]

----------------------------------------------------------------------------
(* Slots and opening                                                       *)

\* C26: every slot returned by get_slots is a time at which the same weekly
\* entry is open: for every s in get_slots(), is_open_at(s) is true, that is
\* open_time <= s < close_time and s is not inside the break, for every
\* stored entry and every positive stride.
C26_SlotsAreOpen ==
    (frame.op = "get_slots" /\ frame.duration > 0) =>
        \A i \in 1 .. Len(frame.slots) :
            LET s == frame.slots[i]
                h == Self
            IN  /\ is_open_at(h, s)
                /\ h.open_time <= s
                /\ s < h.close_time
                /\ ~(HasBreak(h) /\ h.break_start <= s /\ s < h.break_end)

\* get_slots has returned, with a positive stride, slots before and after a
\* break that its position fell into.
C26_Witness ==
    /\ frame.op = "get_slots"
    /\ frame.pc = "returned"
    /\ frame.duration > 0
    /\ EnteredBreak
    /\ \E i, j \in 1 .. Len(frame.slots) :
          /\ frame.slots[i] < Self.break_start
          /\ frame.slots[j] >= Self.break_end

----------------------------------------------------------------------------
(* Specification of the failing requests: empty tables, and edit_hours,    *)
(* add_special_day, edit_special_day and settings_save requested for hub A *)
(* with bodies that fail (malformed, non-integer, unparsable time, failed  *)
(* validation) and bodies that succeed.                                    *)

FailingHoursBodies ==
    {Malformed,
     Json([day_of_week |-> Str("abc")]),
     Json([day_of_week |-> Friday, open_time |-> "25:00"]),
     Json([day_of_week |-> Friday, break_start |-> "13:00", break_end |-> "noon"]),
     Json([day_of_week |-> Friday]),
     Json([day_of_week |-> Friday, is_closed |-> TRUE])}

FailingAddBodies ==
    {Malformed,
     Json([name |-> "No date"]),
     Json([date |-> "25/12/2026", name |-> "Christmas"]),
     Json([date |-> "2026-12-25"]),
     Json([date |-> "2026-12-25", name |-> "Christmas", is_closed |-> FALSE]),
     Json([date |-> "2026-12-25", name |-> "Christmas"]),
     Json([date |-> "2027-12-25", name |-> "Inventory", is_closed |-> FALSE,
           open_time |-> "10:00", close_time |-> "16:00"])}

FailingEditBodies ==
    {Malformed,
     Json([is_closed |-> FALSE]),
     Json([name |-> ""]),
     Json([date |-> "2026-12-25"]),
     Json([open_time |-> "25:00"]),
     Json([name |-> "Navidad"])}

FailingSettingsBodies ==
    {Malformed,
     Json([slot_duration |-> Str("abc")]),
     Json([timezone |-> "UTC", week_starts_on |-> Str("abc")]),
     Json([timezone |-> "UTC"])}

InitFailures ==
    /\ hours = {}
    /\ specials = {}
    /\ overrides = {}
    /\ settings = {}
    /\ today = D(2026, 12, 25)
    /\ now_time = T(13, 30, 0)
    /\ frame = IdleFrame
    /\ resp = NoResp
    /\ reqs = NoRequests

NextFailures ==
    \/ \E body \in FailingHoursBodies : EditHoursBegin(1, HubA, body)
    \/ EditHoursCreate(1)
    \/ EditHoursUpdate(1)
    \/ \E body \in FailingAddBodies : AddSpecialDay(HubA, body)
    \/ \E body \in FailingEditBodies, pk \in SpecialIds : EditSpecialDay(HubA, pk, body)
    \/ \E body \in FailingSettingsBodies : SettingsSave(HubA, body)

SpecFailures == InitFailures /\ [][NextFailures]_vars

----------------------------------------------------------------------------
(* Properties of the failing requests                                      *)

\* The response in the next state is a failure of one of the four views.
\* (The steps that write, other than those of these views' own requests,
\* answer with a success.)
FailedMutation ==
    /\ resp'.view \in {"edit_hours", "add_special_day", "edit_special_day",
                       "settings_save"}
    /\ ~resp'.success

\* C27 (as stated): when edit_hours, add_special_day, edit_special_day or
\* settings_save fails, the response is success = false with status 400 and
\* no stored record differs from its value before the request.
C27_FailureChangesNothing ==
    [][FailedMutation =>
          /\ resp'.status = 400
          /\ UNCHANGED <<hours, specials, overrides, settings>>]_vars

\* C27 (amended): when one of the four views fails, the response is
\* success = false with status 400, no stored record is modified or deleted,
\* and none is created, except that a settings_save whose body parses creates
\* the hub's settings row, with the defaults, when the hub has none.
C27_FailureChangesNothingButLazySettings ==
    [][FailedMutation =>
          /\ resp'.status = 400
          /\ UNCHANGED <<hours, specials, overrides>>
          /\ \/ UNCHANGED settings
             \/ /\ resp'.view = "settings_save"
                /\ Parses(resp'.request)
                /\ SettingsOf(settings, resp'.hub) = {}
                /\ \E created \in settings' :
                      /\ settings' = settings \cup {created}
                      /\ created.hub_id = resp'.hub
                      /\ HasDefaults(created)]_vars

\* With a weekly entry, a special day and non-default settings stored, the
\* last request, an edit_special_day that fails the validation, was refused.
C27_Witness ==
    /\ hours # {}
    /\ \E sd \in specials : sd.name = "Navidad"
    /\ \E r \in settings : r.timezone = "UTC"
    /\ resp.view = "edit_special_day"
    /\ ~resp.success
    /\ resp.request = Json([is_closed |-> FALSE])
    /\ resp.pk \in {sd.id : sd \in specials}

----------------------------------------------------------------------------
(* Not-found signalling of the special-day views                           *)

\* C28: delete_special_day and edit_special_day on an id that does not exist
\* in the requesting hub, or that is already soft-deleted, signal not-found
\* (status 404, no success) and change no stored record; so a second delete
\* of the same special day reports not-found, and the record stays deleted.
C28_NotFoundSignalled ==
    [][(/\ resp'.view \in {"edit_special_day", "delete_special_day"}
        /\ \A sd \in specials :
              sd.id = resp'.pk => (sd.hub_id # resp'.hub \/ sd.is_deleted)) =>
          /\ ~resp'.success
          /\ resp'.status = 404
          /\ UNCHANGED <<hours, specials, overrides, settings>>]_vars

----------------------------------------------------------------------------
(* Intervals of overrides and special days                                 *)

\* A record that is not marked closed and has both times.
Timed(r) == r # NoRow /\ ~r.is_closed /\ r.open_time # None /\ r.close_time # None

\* The asked time lies in the record's interval, close excluded.
WithinInterval(r) == r.open_time <= now_time /\ now_time < r.close_time

\* The record that decides among the records consulted, in their order, or
\* NoRow when none of them decides.
FirstDeciding(rows) ==
    LET deciding == {i \in 1 .. Len(rows) : Decides(rows[i])}
    IN  IF deciding = {} THEN NoRow
        ELSE rows[CHOOSE k \in deciding : \A j \in deciding : k <= j]

\* C29: when an override or special day with both open_time and close_time
\* decides the result (in is_open_now the first deciding record among the
\* override, the special day of the date and the recurring special day; in
\* dashboard among the override and the special day of the date), is_open is
\* exactly open_time <= now < close_time of that record: the weekly entry's
\* closed flag, hours and break have no effect, so the location is reported
\* open during the weekly break and on a weekday marked closed.
C29_IntervalDecides ==
    /\ resp.view = "is_open_now" =>
          \E o \in Pick(Tier1), s \in Pick(Tier2), r \in Pick(Tier3) :
              LET d == FirstDeciding(<<o, s, r>>)
              IN  Timed(d) =>
                    /\ resp.is_open = WithinInterval(d)
                    /\ (/\ WithinInterval(d)
                        /\ \E h \in Tier4 : h.is_closed \/ InBreak(h, now_time))
                          => resp.is_open
    /\ resp.view = "dashboard" =>
          LET d == FirstDeciding(<<resp.override_today, resp.special_today>>)
          IN  /\ resp.override_today \in Pick(Tier1)
              /\ resp.special_today \in Pick(Tier2)
              /\ Timed(d) =>
                    /\ resp.is_open = WithinInterval(d)
                    /\ (WithinInterval(d) /\ resp.today_hours # NoRow) => resp.is_open

\* Asked during the break of the weekly entry of the day, with an override
\* whose interval contains the asked time: is_open_now has answered open.
C29_Witness ==
    /\ resp.view = "is_open_now"
    /\ \E h \in Tier4 : ~h.is_closed /\ InBreak(h, now_time)
    /\ \E o \in Tier1 : Timed(o) /\ WithinInterval(o) /\ resp.reason = o.reason
    /\ resp.is_open

====
